---- MODULE Spec2Model ----
(***************************************************************************)
(* scrapyd-k8s: the concurrent control plane.                              *)
(*                                                                         *)
(*   - launcher/k8s.py, launcher/docker.py : the workload drivers          *)
(*   - k8s_scheduler.py                    : the admission scheduler       *)
(*   - k8s_resource_watcher.py             : the watcher and its fan-out   *)
(*   - joblogs/log_handler_k8s.py,                                         *)
(*     object_storage/libcloud_driver.py   : the log pipeline              *)
(*                                                                         *)
(* Every backend API call is one step; a handler that makes several calls  *)
(* is a sequence of steps of the thread that runs it, so that the calls of *)
(* concurrent threads interleave as they do in the program.                *)
(***************************************************************************)
EXTENDS Integers, Sequences, FiniteSets, TLC

(***************************************************************************)
(* Bounds of the model.                                                    *)
(***************************************************************************)
\* HTTP handler threads that may be inside schedule/cancel at the same time
NumClients == 2
\* handler threads that serve cancel requests at a time
NumCancellers == 1
\* workloads created over a run (each creation takes a creation timestamp)
MaxClock == 3
\* pod events waiting in the watch stream
MaxQueue == 1
\* largest configured max_proc
MaxProcCfg == 1
\* workloads created over a run with max_proc left out of the configuration
MaxClockUnset == 5
\* largest configured max_proc of the runs that look at one pass at a time
MaxProcPass == 2
\* latest creation time (in seconds) of the job tables looked at
MaxStamp == 2
\* the resource versions (pod events) of a run of the connection loop
MaxRv == 2
\* the streams of a run of the connection loop that fail
MaxFails == 3

\* launcher/k8s.py:50  int(config.scrapyd().get('max_proc', 4))
DefaultMaxProc == 4

None == "None"
\* The 'max_proc' key of the configuration is a sequence: <<>> when the key
\* is absent, <<m>> when it is set to m.
Unset == <<>>
\* A lock is the set of its holders: nobody, or one thread.
Free == {}

\* A workload is named after project and job id:
\*   k8s.py:356     '-'.join(('scrapyd', project, job_id))
\*   docker.py:87   '_'.join(['scrapyd', project.id(), job_id])
Projects == {"p1", "p2"}
JobIds == {"a", "b"}
\* the jobs that clients ask for when max_proc is configured
Requested == {<<"p1", "a">>, <<"p2", "a">>, <<"p1", "b">>}
\* all jobs: with max_proc left out of the configuration the Kubernetes
\* driver admits DefaultMaxProc jobs, and one more is asked for
Names == Requested \cup {<<"p2", "b">>, <<"p1", "c">>}
ProjectOf(n) == n[1]
JobIdOf(n) == n[2]

Clients == 1..NumClients
\* those of them that serve cancel requests
Cancellers == 1..NumCancellers
\* thread 0: the watcher thread (Kubernetes) or the background thread (Docker)
Worker == 0
Threads == {Worker} \cup Clients

VARIABLES
    driver,       \* "k8s" | "docker": the launcher class in use
    cfg_max_proc, \* the 'max_proc' key of [scrapyd]: Unset or an integer
    faults,       \* whether backend API calls may fail in this run
    jobs,         \* the backend: Names -> workload record
    clock,        \* the backend's creation-timestamp clock
    pc,           \* Threads -> position of the thread
    loc,          \* Threads -> local variables of the handler being run
    stream,       \* pod events of the open watch stream, not yet received
    bglock        \* docker.py:32 self._lock: Free or its holder

schedVars == <<driver, cfg_max_proc, faults, jobs, clock, pc, loc, stream, bglock>>

\* The log pipeline (joblogs/log_handler_k8s.py, object_storage/libcloud_driver.py)
VARIABLES
    compression_method,  \* libcloud_driver.py:74: None or a method name
    num_lines_to_check,  \* log_handler_k8s.py:71
    pods,                \* LogJobs -> phase of the job's pod
    podEvents,           \* pod events not yet handed to handle_events
    redelivered,         \* pod events delivered again so far
    hpc,                 \* position of handle_events
    hjob,                \* its local job_id
    files,               \* LogJobs -> the local log file {logs_dir}/{job_id}.txt
    tails,               \* LogJobs -> state of the job's stream_logs thread
    linked,              \* LogJobs -> the thread's open log_file is the file at the path
    hadLines,            \* LogJobs -> the thread's last_n_lines is not empty
    objects,             \* the object names in the storage container
    uploads,             \* LogJobs -> uploads that succeeded
    attempts,            \* LogJobs -> calls of upload_file
    alive,               \* LogJobs -> stream_logs threads of the job that are alive
    skipped              \* LogJobs -> a Running event has found the thread alive

logVars == <<compression_method, num_lines_to_check, pods, podEvents, redelivered,
             hpc, hjob, files, tails, linked, hadLines, objects, uploads, attempts,
             alive, skipped>>

\* The watcher's fan-out (k8s_resource_watcher.py)
VARIABLES
    subscribers,  \* k8s_resource_watcher.py:33: the list of callbacks
    lock,         \* k8s_resource_watcher.py:37 self._lock: Free or its holder
    npc,          \* position of the watcher thread in watch_pods
    idx,          \* position of the loop of notify_subscribers in the list
    invoked,      \* Callbacks -> invocations with the event being dispatched
    resubscribed, \* a subscribe call has found its callback in the list
    stop_event,   \* k8s_resource_watcher.py:34 self._stop_event is set
    spc,          \* position of the caller of stop()
    wstream,      \* events received on the open connection, not yet yielded
    sent,         \* number of the last event the API server has sent
    event,        \* the event being dispatched (0 before the first)
    delivered,    \* Callbacks -> the events the callback was called with
    raised,       \* the callbacks that raised with the event being dispatched
    prev_raised   \* a callback raised with the previous event of this stream

fanVars == <<subscribers, lock, npc, idx, invoked, resubscribed, stop_event, spc,
             wstream, sent, event, delivered, raised, prev_raised>>

\* One stream_logs thread and its files, line by line
\* (joblogs/log_handler_k8s.py:201-255)
VARIABLES
    main_file,         \* the lines of the log file {logs_dir}/{job_id}.txt
    pod_log,           \* the lines the pod's log stream has yet to yield
    last_n_lines,      \* log_handler_k8s.py:221
    log_lines_counter, \* log_handler_k8s.py:217
    temp_logs,         \* the lines of the temporary file; None when it is gone
    tpc,               \* position of the thread
    old_content,       \* the lines of the log file when the thread started
    replayed           \* the lines of the pod's log stream, all of them

tailVars == <<main_file, pod_log, last_n_lines, log_lines_counter, temp_logs,
              tpc, old_content, replayed>>

\* The HTTP facade (api.py)
VARIABLES
    resp          \* the response of the last /listjobs.json request

\* The connection loop of the watcher (k8s_resource_watcher.py:21-38, 82-139)
VARIABLES
    cfg_backoff_time, \* the 'backoff_time' key of [scrapyd]
    ctor,             \* position of ResourceWatcher.__init__
    wloop,            \* the watcher thread in watch_pods: position and locals
    apisrv,           \* the API server: the latest resource version, and
                      \* the next event of the open stream
    whist             \* what the loop has done so far

watchVars == <<cfg_backoff_time, ctor, wloop, apisrv, whist>>

vars == <<schedVars, logVars, fanVars, tailVars, resp, watchVars>>

notSched == <<logVars, fanVars, tailVars, resp, watchVars>>
notLog == <<schedVars, fanVars, tailVars, resp, watchVars>>
notFan == <<schedVars, logVars, tailVars, resp, watchVars>>
notTail == <<schedVars, fanVars, resp, watchVars>>
notApi == <<schedVars, logVars, fanVars, tailVars, watchVars>>
notWatch == <<schedVars, logVars, fanVars, tailVars, resp>>

(***************************************************************************)
(* The backend's workloads.                                                *)
(*   Kubernetes Job: spec.suspend, status (phase of its single pod),       *)
(*                   metadata.creation_timestamp; whether the running     *)
(*                   processes of its pod have been sent a signal.         *)
(*   Docker container: status created | running | exited, attrs.Created.   *)
(***************************************************************************)
NoJob == [exists |-> FALSE, suspend |-> FALSE, phase |-> "none", created |-> 0,
          signalled |-> FALSE]

Existing == {n \in Names : jobs[n].exists}

\* k8s.py:41-52 / docker.py:26-39
max_proc ==
    IF driver = "k8s"
    THEN (IF cfg_max_proc = Unset THEN DefaultMaxProc ELSE cfg_max_proc[1])
    ELSE cfg_max_proc[1]

\* k8s.py:346-354
K8sJobToScrapydStatus(j) ==
    IF j.phase = "Running" THEN "running"
    ELSE IF j.phase = "Succeeded" THEN "finished"
    ELSE IF j.phase = "Failed" THEN "finished"
    ELSE "pending"

\* docker.py:20-24, 187-188
DockerToScrapydStatus(status) ==
    IF status \in {"created", "scheduled"} THEN "pending"
    ELSE IF status = "exited" THEN "finished"
    ELSE status

ScrapydState(n) ==
    IF driver = "k8s" THEN K8sJobToScrapydStatus(jobs[n])
    ELSE DockerToScrapydStatus(jobs[n].phase)

\* A filter that takes only the jobs whose pod runs.
IsActiveJobReady(j) == ~j.suspend /\ j.phase = "Running"

\* k8s.py:244-264
IsActiveJob(j) ==
    /\ ~j.suspend
    /\ j.phase # "Succeeded"     \* completion_time is None
    /\ j.phase # "Failed"        \* not (failed is not None and failed > 0)

\* k8s.py:266-280
IsSuspendedJob(j) == j.suspend

\* The outcomes of one list call: the items, or (when calls may fail) the
\* empty list that _filter_jobs returns on ApiException (k8s.py:240-242).
ApiOutcomes == IF faults THEN {"ok", "error"} ELSE {"ok"}

\* k8s.py:206-242: the jobs of the listing that pass the filter, or [] when
\* the listing fails
FilterJobs(outcome, filtered) ==
    IF outcome = "error" THEN {} ELSE filtered

\* k8s.py:183-193: label selector 'org.scrapy.job_id' selects every workload
K8sRunningJobsCount(outcome) ==
    Cardinality(FilterJobs(outcome, {n \in Existing : IsActiveJob(jobs[n])}))

\* docker.py:154-162
DockerRunningJobsCount ==
    IF cfg_max_proc # Unset
    THEN Cardinality({n \in Existing : jobs[n].phase = "running"})
    ELSE 0

\* k8s.py:195-204
ListSuspendedJobs(outcome) ==
    FilterJobs(outcome, {n \in Existing : IsSuspendedJob(jobs[n])})

\* The elements a stable sort by creation time may put first: those of least
\* creation time (which of several equal ones depends on the list's order).
Earliest(S) == {n \in S : \A m \in S : jobs[n].created <= jobs[m].created}

\* k8s_scheduler.py:77-97: the candidates for jobs[0] after the sort; the
\* result is the label job_id of that job.
NextSuspendedJobs(outcome) == Earliest(ListSuspendedJobs(outcome))

\* docker.py:123-132
NextPendingContainers ==
    Earliest({n \in Existing : jobs[n].phase = "created"})

\* k8s.py:308-331: the jobs the selector 'org.scrapy.job_id=<job_id>' lists;
\* _get_job_name takes jobs[0] of them.
JobsWithId(outcome, job_id) ==
    FilterJobs(outcome, {n \in Existing : JobIdOf(n) = job_id})

(***************************************************************************)
(* The number the cap is about: workloads neither suspended nor terminal.  *)
(***************************************************************************)
ActiveWorkloads ==
    IF driver = "k8s"
    THEN {n \in Existing : IsActiveJob(jobs[n])}
    ELSE {n \in Existing : jobs[n].phase = "running"}

(***************************************************************************)
(* Initial state: the service has started, the backend holds no workload.  *)
(***************************************************************************)
\* The locals of a handler, and what it has done so far: 'failed' records
\* that the backend call of its lookup failed and 'count_failed' that the
\* list call of its running count failed; for a pass, 'r' is the
\* running count it read first and 'released' the number of waiting
\* workloads it has un-suspended or started.
IdleLoc == [name |-> <<None, None>>, start_suspended |-> FALSE,
            running_jobs |-> 0, pick |-> <<None, None>>, id |-> 0,
            status |-> None, failed |-> FALSE, r |-> 0, released |-> 0,
            count_failed |-> FALSE]

\* No /listjobs.json request has been served.
NoResp == [status |-> None, failed |-> FALSE, jobs |-> {}, pending |-> {},
           running |-> {}, finished |-> {}]

SchedInit ==
    /\ driver \in {"k8s", "docker"}
    /\ cfg_max_proc \in {<<m>> : m \in 0..MaxProcCfg}
    /\ faults = FALSE
    /\ jobs = [n \in Names |-> NoJob]
    /\ clock = 0
    /\ pc = [t \in Threads |-> "idle"]
    /\ loc = [t \in Threads |-> IdleLoc]
    /\ stream = <<>>
    /\ bglock = Free
    /\ resp = NoResp

\* A thread's handler returns: its locals are gone.
Return(t) ==
    /\ pc' = [pc EXCEPT ![t] = "idle"]
    /\ loc' = [loc EXCEPT ![t] = IdleLoc]

\* The creations of a run are bounded.
ClockBound == IF cfg_max_proc = Unset THEN MaxClockUnset ELSE MaxClock

\* The backend creates workload n at the next creation timestamp.
Create(n, suspend, phase) ==
    /\ clock < ClockBound
    /\ clock' = clock + 1
    /\ jobs' = [jobs EXCEPT ![n] = [exists |-> TRUE, suspend |-> suspend,
                                    phase |-> phase, created |-> clock + 1,
                                    signalled |-> FALSE]]

(***************************************************************************)
(* Pod events (Kubernetes): the fields the subscribers read.               *)
(***************************************************************************)
Event(type, phase) == [type |-> type, phase |-> phase, labelled |-> TRUE]

Emit(e) == stream' = Append(stream, e)

(***************************************************************************)
(* K8s.schedule (k8s.py:68-130)                                            *)
(***************************************************************************)
StartSuspendedGt(running_jobs) == running_jobs > max_proc
\* k8s.py:70
StartSuspended(running_jobs) == running_jobs >= max_proc

\* k8s.py:69-70: running_jobs = self.get_running_jobs_count()
\*               start_suspended = running_jobs >= self.max_proc
K8sScheduleCount(t, n) ==
    /\ driver = "k8s"
    /\ pc[t] = "idle"
    /\ \E outcome \in ApiOutcomes :
         loc' = [loc EXCEPT ![t] =
                   [IdleLoc EXCEPT
                      !.name = n,
                      !.start_suspended =
                          StartSuspended(K8sRunningJobsCount(outcome)),
                      !.count_failed = (outcome = "error")]]
    /\ pc' = [pc EXCEPT ![t] = "k_create"]
    /\ UNCHANGED <<driver, cfg_max_proc, faults, jobs, clock, stream, bglock>>
    /\ UNCHANGED notSched

\* k8s.py:118-130: create_namespaced_job with suspend=start_suspended; the
\* backend refuses a name that exists (409), and schedule raises.
K8sScheduleCreate(t) ==
    /\ driver = "k8s"
    /\ pc[t] = "k_create"
    /\ IF jobs[loc[t].name].exists
       THEN UNCHANGED <<jobs, clock>>
       ELSE Create(loc[t].name, loc[t].start_suspended, "none")
    /\ Return(t)
    /\ UNCHANGED <<driver, cfg_max_proc, faults, stream, bglock>>
    /\ UNCHANGED notSched

(***************************************************************************)
(* K8s.cancel (k8s.py:132-155)                                             *)
(***************************************************************************)
\* The phase a pod event reports for the pod of job j.
PodPhase(j) == IF j.phase = "none" THEN "Pending" ELSE j.phase

\* The locals of cancel after the lookup: the arguments, the workload found
\* and its state (None for no workload).
CancelLoc(project, job_id, n, status) ==
    [IdleLoc EXCEPT !.name = <<project, job_id>>, !.pick = n, !.status = status]

\* k8s.py:133-137, 293-306: _get_job takes jobs[0] of the jobs with the
\* label job_id and gives None when there is none or when the project of
\* jobs[0] differs; prevstate is the state of the job that was listed.
K8sCancel(t, project, job_id) ==
    /\ driver = "k8s"
    /\ pc[t] = "idle"
    /\ pc' = [pc EXCEPT ![t] = "k_cancel"]
    /\ \E outcome \in ApiOutcomes :
         LET found == JobsWithId(outcome, job_id)
         IN IF found = {}
            THEN loc' = [loc EXCEPT ![t] =
                           [CancelLoc(project, job_id, <<None, None>>, None)
                               EXCEPT !.failed = (outcome = "error")]]
            ELSE \E n \in found :
                   loc' = [loc EXCEPT ![t] =
                             IF ProjectOf(n) = project
                             THEN CancelLoc(project, job_id, n,
                                            K8sJobToScrapydStatus(jobs[n]))
                             ELSE CancelLoc(project, job_id, <<None, None>>, None)]
    /\ UNCHANGED <<driver, cfg_max_proc, faults, jobs, clock, stream, bglock>>
    /\ UNCHANGED notSched

\* k8s.py:333-344: _get_pod lists the pods with the label job_id; a job
\* has a pod once it is not suspended.
PodsWithId(job_id) ==
    {n \in Existing : JobIdOf(n) = job_id /\ ~jobs[n].suspend}

\* k8s.py:140:  elif prevstate == 'running'
Kills(prevstate) == prevstate = "running"

\* k8s.py:134-155: no job: None is returned. A finished job is left alone.
\* For a running one, _get_pod takes items[0] of the pods with the label
\* job_id, gives None when its project differs, and the processes of the
\* pod found are sent the signal (killall5 finds none in a pod that has
\* ended). A job in any other state is deleted: delete_namespaced_job by
\* name, foreground propagation: the job's pod, if it has one, is deleted
\* with it (a DELETED pod event). A job that is gone is a 404 and cancel
\* raises.
K8sCancelAct(t) ==
    /\ driver = "k8s"
    /\ pc[t] = "k_cancel"
    /\ LET n == loc[t].pick
           prevstate == loc[t].status
           pods_found == PodsWithId(loc[t].name[2])
       IN CASE prevstate \in {None, "finished"} -> UNCHANGED <<jobs, stream>>
            [] prevstate \notin {None, "finished"} /\ Kills(prevstate) ->
                 /\ IF pods_found = {}
                    THEN UNCHANGED jobs
                    ELSE \E pod \in pods_found :
                           IF ProjectOf(pod) = loc[t].name[1]
                              /\ jobs[pod].phase = "Running"
                           THEN jobs' = [jobs EXCEPT ![pod].signalled = TRUE]
                           ELSE UNCHANGED jobs
                 /\ UNCHANGED stream
            [] OTHER ->
                 IF ~jobs[n].exists
                 THEN UNCHANGED <<jobs, stream>>
                 ELSE /\ jobs' = [jobs EXCEPT ![n] = NoJob]
                      /\ IF jobs[n].suspend
                         THEN UNCHANGED stream
                         ELSE /\ Len(stream) < MaxQueue
                              /\ Emit(Event("DELETED", PodPhase(jobs[n])))
    /\ Return(t)
    /\ UNCHANGED <<driver, cfg_max_proc, faults, clock, bglock>>
    /\ UNCHANGED notSched

(***************************************************************************)
(* The Kubernetes backend: the pod of an un-suspended job starts, runs and *)
(* ends; each change is a pod event on the watch stream.                   *)
(***************************************************************************)
PodRunning(n) ==
    /\ driver = "k8s"
    /\ jobs[n].exists /\ ~jobs[n].suspend /\ jobs[n].phase = "none"
    /\ Len(stream) < MaxQueue
    /\ jobs' = [jobs EXCEPT ![n].phase = "Running"]
    /\ Emit(Event("MODIFIED", "Running"))
    /\ UNCHANGED <<driver, cfg_max_proc, faults, clock, pc, loc, bglock>>
    /\ UNCHANGED notSched

PodTerminates(n) ==
    /\ driver = "k8s"
    /\ jobs[n].exists /\ jobs[n].phase = "Running"
    /\ Len(stream) < MaxQueue
    /\ \E ph \in {"Succeeded", "Failed"} :
         /\ jobs' = [jobs EXCEPT ![n].phase = ph, ![n].signalled = FALSE]
         /\ Emit(Event("MODIFIED", ph))
    /\ UNCHANGED <<driver, cfg_max_proc, faults, clock, pc, loc, bglock>>
    /\ UNCHANGED notSched

\* The event types of a watch and the phases of a pod.
EventTypes == {"ADDED", "MODIFIED", "DELETED"}

PodPhases == {"Pending", "Running", "Succeeded", "Failed"}

\* k8s_resource_watcher.py:95-102: the watch lists the pods of the whole
\* namespace, with no label selector: a pod that is not a job's (it has no
\* job-id label) sends its events on the same stream.
ForeignPodEvent ==
    /\ driver = "k8s"
    /\ Len(stream) < MaxQueue
    /\ \E type \in EventTypes, phase \in PodPhases :
         Emit([type |-> type, phase |-> phase, labelled |-> FALSE])
    /\ UNCHANGED <<driver, cfg_max_proc, faults, jobs, clock, pc, loc, bglock>>
    /\ UNCHANGED notSched

\* k8s_resource_watcher.py:95-102, 117-139: a watch that (re)starts with no
\* resource version is sent an ADDED event for every pod there is, with the
\* phase the pod has.
PodListed(n) ==
    /\ driver = "k8s"
    /\ jobs[n].exists /\ ~jobs[n].suspend
    /\ Len(stream) < MaxQueue
    /\ Emit(Event("ADDED", PodPhase(jobs[n])))
    /\ UNCHANGED <<driver, cfg_max_proc, faults, jobs, clock, pc, loc, bglock>>
    /\ UNCHANGED notSched

(***************************************************************************)
(* KubernetesScheduler (k8s_scheduler.py), run by the watcher thread.      *)
(***************************************************************************)
\* A handler that does not look at the event type.
TriggersPassAnyType(e) ==
    /\ e.labelled
    /\ e.phase \in {"Succeeded", "Failed"}

\* k8s_scheduler.py:46-55
TriggersPass(e) ==
    /\ e.labelled
    /\ e.phase \in {"Succeeded", "Failed"}
    /\ e.type \in {"MODIFIED", "DELETED"}

\* k8s_resource_watcher.py:102-113 with k8s_scheduler.py:34-55: the watcher
\* receives the next event and calls handle_pod_event with it.
HandlePodEvent ==
    /\ driver = "k8s"
    /\ pc[Worker] = "idle"
    /\ stream # <<>>
    /\ stream' = Tail(stream)
    /\ pc' = [pc EXCEPT ![Worker] =
                IF TriggersPass(Head(stream)) THEN "p_count" ELSE "idle"]
    /\ UNCHANGED <<driver, cfg_max_proc, faults, jobs, clock, loc, bglock>>
    /\ UNCHANGED notSched

(***************************************************************************)
(* The un-suspend pass: KubernetesScheduler.check_and_unsuspend_jobs       *)
(* (k8s_scheduler.py:57-75) and Docker.start_pending_containers            *)
(* (docker.py:102-121).                                                    *)
(***************************************************************************)
\* The end of a pass: the handler returns; the background thread of the
\* Docker driver leaves its 'with self._lock' block (docker.py:47-49).
EndPass(t) ==
    /\ Return(t)
    /\ bglock' = bglock \ {t}

HasRoomLe(running_jobs_count) == running_jobs_count <= max_proc
\* k8s_scheduler.py:64 / docker.py:109: the loop test of the pass
HasRoom(running_jobs_count) == running_jobs_count < max_proc

\* The workloads that wait for a slot: suspended jobs, created containers.
Waiting ==
    IF driver = "k8s"
    THEN {n \in Existing : IsSuspendedJob(jobs[n])}
    ELSE {n \in Existing : jobs[n].phase = "created"}

\* k8s_scheduler.py:61 / docker.py:106
PassCount(t) ==
    /\ pc[t] = "p_count"
    /\ \E outcome \in ApiOutcomes :
         LET running_jobs_count ==
                 IF driver = "k8s" THEN K8sRunningJobsCount(outcome)
                 ELSE DockerRunningJobsCount
         IN loc' = [loc EXCEPT ![t].running_jobs = running_jobs_count,
                               ![t].r = running_jobs_count,
                               ![t].released = 0,
                               ![t].failed = FALSE,
                               ![t].count_failed =
                                   (driver = "k8s" /\ outcome = "error")]
    /\ pc' = [pc EXCEPT ![t] = "p_next"]
    /\ UNCHANGED <<driver, cfg_max_proc, faults, jobs, clock, stream, bglock>>
    /\ UNCHANGED notSched

\* k8s_scheduler.py:64-68 / docker.py:109-113: the loop test and the choice
\* of the next job. The Kubernetes pass keeps the job's label job_id, the
\* Docker pass the container.
PassNext(t) ==
    /\ pc[t] = "p_next"
    /\ IF HasRoom(loc[t].running_jobs)
       THEN \E outcome \in ApiOutcomes :
              LET cands == IF driver = "k8s" THEN NextSuspendedJobs(outcome)
                           ELSE NextPendingContainers
              IN IF cands = {}
                 THEN EndPass(t)
                 ELSE /\ \E n \in cands :
                           loc' = IF driver = "k8s"
                                  THEN [loc EXCEPT ![t].pick = <<None, JobIdOf(n)>>]
                                  ELSE [loc EXCEPT ![t].pick = n,
                                                   ![t].id = jobs[n].created]
                      /\ pc' = [pc EXCEPT ![t] = "p_start"]
                      /\ UNCHANGED bglock
       ELSE EndPass(t)
    /\ UNCHANGED <<driver, cfg_max_proc, faults, jobs, clock, stream>>
    /\ UNCHANGED notSched

\* A pass that goes on trying after an unsuspend that failed.
UnsuspendFailedRetries(t) ==
    /\ pc' = [pc EXCEPT ![t] = "p_next"]
    /\ loc' = [loc EXCEPT ![t].failed = TRUE]
    /\ UNCHANGED bglock

\* k8s_scheduler.py:69, 73-75: success is False: the error is logged and the
\* loop is left, handle_pod_event returns. failed keeps the outcome of the
\* unsuspend call until the next pass.
UnsuspendFailed(t) ==
    /\ pc' = [pc EXCEPT ![t] = "idle"]
    /\ loc' = [loc EXCEPT ![t] = [IdleLoc EXCEPT !.failed = TRUE]]
    /\ bglock' = bglock \ {t}

\* k8s.py:166-181 with k8s_scheduler.py:69-75: unsuspend_job looks the job up
\* by its label job_id, takes jobs[0] and patches it; any failure is False
\* and ends the pass.
K8sPassUnsuspend(t) ==
    /\ driver = "k8s"
    /\ pc[t] = "p_start"
    /\ \E outcome \in ApiOutcomes :
         LET found == JobsWithId(outcome, JobIdOf(loc[t].pick))
         IN IF found = {}
            THEN UnsuspendFailed(t) /\ UNCHANGED jobs
            ELSE \E n \in found, patch \in ApiOutcomes :
                   IF patch = "error"
                   THEN UnsuspendFailed(t) /\ UNCHANGED jobs
                   ELSE /\ jobs' = [jobs EXCEPT ![n].suspend = FALSE]
                        /\ loc' = [loc EXCEPT
                                     ![t].running_jobs = @ + 1,
                                     ![t].released =
                                         IF n \in Waiting THEN @ + 1 ELSE @]
                        /\ pc' = [pc EXCEPT ![t] = "p_next"]
                        /\ UNCHANGED bglock
    /\ UNCHANGED <<driver, cfg_max_proc, faults, clock, stream>>
    /\ UNCHANGED notSched

(***************************************************************************)
(* Docker.schedule (docker.py:69-100)                                      *)
(***************************************************************************)
\* docker.py:78-91: containers.create; the daemon refuses a name in use.
DockerScheduleCreate(t, n) ==
    /\ driver = "docker"
    /\ pc[t] = "idle"
    /\ IF jobs[n].exists
       THEN UNCHANGED <<jobs, clock, pc, loc>>
       ELSE /\ Create(n, FALSE, "created")
            /\ pc' = [pc EXCEPT ![t] = "d_count"]
            /\ loc' = [loc EXCEPT ![t].name = n]
    /\ UNCHANGED <<driver, cfg_max_proc, faults, stream, bglock>>
    /\ UNCHANGED notSched

StartsPassLe(running_jobs_count) == running_jobs_count <= max_proc
\* docker.py:94
StartsPass(running_jobs_count) == running_jobs_count < max_proc

\* docker.py:92-100: with max_proc set, count the running containers and
\* run a start pass if there is room, else leave the container pending;
\* with max_proc None, c.start() at once.
DockerScheduleCount(t) ==
    /\ driver = "docker"
    /\ pc[t] = "d_count"
    /\ IF cfg_max_proc # Unset
       THEN /\ IF StartsPass(DockerRunningJobsCount)
               THEN /\ pc' = [pc EXCEPT ![t] = "p_count"]
                    /\ loc' = [loc EXCEPT ![t] = IdleLoc]
               ELSE Return(t)
            /\ UNCHANGED jobs
       ELSE /\ jobs' = [jobs EXCEPT ![loc[t].name].phase = "running"]
            /\ Return(t)
    /\ UNCHANGED <<driver, cfg_max_proc, faults, clock, stream, bglock>>
    /\ UNCHANGED notSched

\* docker.py:28-37, 41-49: the background thread, which exists when
\* max_proc is set, takes the lock and runs a pass.
BackgroundTask ==
    /\ driver = "docker"
    /\ cfg_max_proc # Unset
    /\ pc[Worker] = "idle"
    /\ bglock = Free
    /\ bglock' = {Worker}
    /\ pc' = [pc EXCEPT ![Worker] = "p_count"]
    /\ UNCHANGED <<driver, cfg_max_proc, faults, jobs, clock, loc, stream>>
    /\ UNCHANGED notSched

\* A container object of the client library refers to the container by its
\* id: a container created later under the same name is another container.
ContainerExists(n, id) == jobs[n].exists /\ jobs[n].created = id

\* docker.py:114-121: pending_container.start(). The daemon starts a created
\* or exited container, leaves a running one as it is, and fails for one
\* that was removed (the pass stops).
DockerPassStart(t) ==
    /\ driver = "docker"
    /\ pc[t] = "p_start"
    /\ LET n == loc[t].pick
       IN IF ~ContainerExists(n, loc[t].id)
          THEN EndPass(t) /\ UNCHANGED jobs
          ELSE /\ jobs' = [jobs EXCEPT ![n].phase = "running"]
               /\ loc' = [loc EXCEPT
                            ![t].running_jobs = @ + 1,
                            ![t].released = IF n \in Waiting THEN @ + 1 ELSE @]
               /\ pc' = [pc EXCEPT ![t] = "p_next"]
               /\ UNCHANGED bglock
    /\ UNCHANGED <<driver, cfg_max_proc, faults, clock, stream>>
    /\ UNCHANGED notSched

(***************************************************************************)
(* Docker.cancel (docker.py:134-149)                                       *)
(***************************************************************************)
\* docker.py:135-139, 175-185: _get_container takes c[0] of the containers
\* with the label job_id, and gives None when there is none or when the
\* project of c[0] differs; c.status is the status at the time of the
\* listing. A listing that fails raises, nothing catches it, and the
\* request ends with an error.
DockerCancel(t, project_id, job_id) ==
    /\ driver = "docker"
    /\ pc[t] = "idle"
    /\ \E outcome \in ApiOutcomes :
         IF outcome = "error"
         THEN UNCHANGED <<pc, loc>>
         ELSE /\ pc' = [pc EXCEPT ![t] = "d_cancel"]
              /\ LET found == {n \in Existing : JobIdOf(n) = job_id}
                 IN IF found = {}
                    THEN loc' = [loc EXCEPT ![t] =
                                   CancelLoc(project_id, job_id, <<None, None>>, None)]
                    ELSE \E n \in found :
                           loc' = [loc EXCEPT ![t] =
                                     IF ProjectOf(n) = project_id
                                     THEN [CancelLoc(project_id, job_id, n, jobs[n].phase)
                                              EXCEPT !.id = jobs[n].created]
                                     ELSE CancelLoc(project_id, job_id, <<None, None>>, None)]
    /\ UNCHANGED <<driver, cfg_max_proc, faults, jobs, clock, stream, bglock>>
    /\ UNCHANGED notSched

\* docker.py:136-149: no container: None is returned. Else remove a created
\* container, kill a running one, then run a start pass (max_proc is set).
\* The daemon refuses to remove a container that runs or is gone and to
\* kill one that does not run; cancel raises then.
DockerCancelAct(t) ==
    /\ driver = "docker"
    /\ pc[t] = "d_cancel"
    /\ IF loc[t].status = None
       THEN Return(t) /\ UNCHANGED jobs
       ELSE LET n == loc[t].pick
                c == jobs[n]
                exists == ContainerExists(n, loc[t].id)
                ok == CASE loc[t].status = "created" -> exists /\ c.phase # "running"
                        [] loc[t].status = "running" -> exists /\ c.phase = "running"
                        [] OTHER -> TRUE
            IN /\ jobs' = CASE ~ok -> jobs
                            [] ok /\ loc[t].status = "created" ->
                                 [jobs EXCEPT ![n] = NoJob]
                            [] ok /\ loc[t].status = "running" ->
                                 [jobs EXCEPT ![n].phase = "exited"]
                            [] OTHER -> jobs
               /\ IF ok /\ cfg_max_proc # Unset
                  THEN /\ pc' = [pc EXCEPT ![t] = "p_count"]
                       /\ loc' = [loc EXCEPT ![t] = IdleLoc]
                  ELSE Return(t)
    /\ UNCHANGED <<driver, cfg_max_proc, faults, clock, stream, bglock>>
    /\ UNCHANGED notSched

\* The container's process ends.
ContainerExits(n) ==
    /\ driver = "docker"
    /\ jobs[n].exists /\ jobs[n].phase = "running"
    /\ jobs' = [jobs EXCEPT ![n].phase = "exited"]
    /\ UNCHANGED <<driver, cfg_max_proc, faults, clock, pc, loc, stream, bglock>>
    /\ UNCHANGED notSched

(***************************************************************************)
(* /listjobs.json (api.py:102-110) with K8s.listjobs (k8s.py:60-66) and    *)
(* Docker.listjobs (docker.py:63-67)                                       *)
(***************************************************************************)
\* The state _parse_job gives the workload (k8s.py:283, docker.py:165).
ParsedState(n) == ScrapydState(n)

\* api.py:106-108: the jobs of the listing whose state is the given one
WithState(listed, state) == {n \in listed : ParsedState(n) = state}

\* The handler lists the workloads of the project (of all projects for
\* None) and sorts them into the three lists by their state. The
\* Kubernetes listing goes through _filter_jobs, which turns a failure
\* into [] (k8s.py:240-242); a failure of the Docker listing raises, and
\* the request ends with an error.
ListJobs(project) ==
    /\ \E outcome \in ApiOutcomes :
         LET selected == {n \in Existing : project \in {None, ProjectOf(n)}}
             listed == IF driver = "k8s" THEN FilterJobs(outcome, selected)
                       ELSE selected
         IN resp' = IF driver = "docker" /\ outcome = "error"
                    THEN [NoResp EXCEPT !.status = "error", !.failed = TRUE]
                    ELSE [status |-> "ok",
                          failed |-> (outcome = "error"),
                          jobs |-> listed,
                          pending |-> WithState(listed, "pending"),
                          running |-> WithState(listed, "running"),
                          finished |-> WithState(listed, "finished")]
    /\ UNCHANGED notApi

\* The Docker daemon: a running container is paused (docker pause), and
\* resumed. The status of a container is one of created, restarting,
\* running, removing, paused, exited, dead.
ContainerPaused(n) ==
    /\ driver = "docker"
    /\ jobs[n].exists /\ jobs[n].phase = "running"
    /\ jobs' = [jobs EXCEPT ![n].phase = "paused"]
    /\ UNCHANGED <<driver, cfg_max_proc, faults, clock, pc, loc, stream, bglock>>
    /\ UNCHANGED notSched

ContainerResumed(n) ==
    /\ driver = "docker"
    /\ jobs[n].exists /\ jobs[n].phase = "paused"
    /\ jobs' = [jobs EXCEPT ![n].phase = "running"]
    /\ UNCHANGED <<driver, cfg_max_proc, faults, clock, pc, loc, stream, bglock>>
    /\ UNCHANGED notSched

SchedNext ==
    \/ \E t \in Clients, n \in Requested : K8sScheduleCount(t, n)
    \/ \E t \in Clients : K8sScheduleCreate(t)
    \/ \E n \in Names : PodRunning(n)
    \/ \E n \in Names : PodTerminates(n)
    \/ HandlePodEvent
    \/ \E t \in Threads : PassCount(t)
    \/ \E t \in Threads : PassNext(t)
    \/ K8sPassUnsuspend(Worker)
    \/ \E t \in Clients, n \in Requested : DockerScheduleCreate(t, n)
    \/ \E t \in Clients : DockerScheduleCount(t)
    \/ BackgroundTask
    \/ \E t \in Threads : DockerPassStart(t)
    \/ \E n \in Names : ContainerExits(n)
    \/ \E t \in Cancellers, project \in Projects, job_id \in JobIds :
         K8sCancel(t, project, job_id)
    \/ \E t \in Cancellers : K8sCancelAct(t)
    \/ \E t \in Cancellers, project \in Projects, job_id \in JobIds :
         DockerCancel(t, project, job_id)
    \/ \E t \in Cancellers : DockerCancelAct(t)

(***************************************************************************)
(* The log pipeline: KubernetesJobLogHandler (joblogs/log_handler_k8s.py)  *)
(* and LibcloudObjectStorage (object_storage/libcloud_driver.py).          *)
(*                                                                         *)
(* A local log file is absent, empty, or holds data. A name in the object  *)
(* storage is the sequence of the pieces it is formatted from.             *)
(***************************************************************************)
\* redeliveries of a pod event (a repeated MODIFIED, an ADDED after a resync)
MaxRedeliver == 2

LogJobs == {"a", "b"}
\* the labels of the pods of the jobs
LogProject == "p1"
LogSpider == "s1"

\* libcloud_driver.py:41-46
COMPRESSION_EXTENSIONS(method) ==
    CASE method = "gzip" -> "gz"
      [] method = "bzip2" -> "bz2"
      [] method = "lzma" -> "xz"
      [] method = "brotli" -> "br"
      [] OTHER -> method

\* libcloud_driver.py:164, 167:  f"logs/{project}/{spider}/{job_id}.log"
ObjectName(project, spider, job_id) ==
    <<"logs", "/", project, "/", spider, "/", job_id, ".log">>

\* libcloud_driver.py:160:  f"logs/{project}/{spider}/{job_id}.log.{extension}"
CompressedObjectName(project, spider, job_id, extension) ==
    ObjectName(project, spider, job_id) \o <<".", extension>>

StartsWith(name, prefix) ==
    /\ Len(prefix) <= Len(name)
    /\ SubSeq(name, 1, Len(prefix)) = prefix

\* libcloud_driver.py:211-212: list_container_objects(container, prefix)
ObjectsWithPrefix(prefix) == {o \in objects : StartsWith(o, prefix)}

\* An object another release of the service left in the container for job j,
\* named after the local file.
LegacyObject(j) == <<j, ".txt">>

UploadCallBindsAlways == TRUE
\* log_handler_k8s.py:293 calls upload_file(log_filename); the method is
\* upload_file(self, project, spider, local_path) (libcloud_driver.py:127):
\* two positional arguments are missing and the call raises TypeError.
UploadCallBinds == FALSE

LogQuiet ==
    /\ compression_method = None
    /\ num_lines_to_check = 0
    /\ pods = [j \in LogJobs |-> "Pending"]
    /\ podEvents = <<>>
    /\ redelivered = 0
    /\ hpc = "idle"
    /\ hjob = None
    /\ files = [j \in LogJobs |-> "absent"]
    /\ tails = [j \in LogJobs |-> "none"]
    /\ linked = [j \in LogJobs |-> FALSE]
    /\ hadLines = [j \in LogJobs |-> FALSE]
    /\ objects = {}
    /\ uploads = [j \in LogJobs |-> 0]
    /\ attempts = [j \in LogJobs |-> 0]
    /\ alive = [j \in LogJobs |-> 0]
    /\ skipped = [j \in LogJobs |-> FALSE]

\* The handler is subscribed, the pods of the jobs exist and have not
\* started; the container may hold objects of an earlier release.
LogInit ==
    /\ compression_method \in {None, "gzip"}
    /\ num_lines_to_check \in {0, 1}
    /\ pods = [j \in LogJobs |-> "Pending"]
    /\ podEvents = <<>>
    /\ redelivered = 0
    /\ hpc = "idle"
    /\ hjob = None
    /\ files = [j \in LogJobs |-> "absent"]
    /\ tails = [j \in LogJobs |-> "none"]
    /\ linked = [j \in LogJobs |-> FALSE]
    /\ hadLines = [j \in LogJobs |-> FALSE]
    /\ objects \in {{}, {LegacyObject("a")}}
    /\ uploads = [j \in LogJobs |-> 0]
    /\ attempts = [j \in LogJobs |-> 0]
    /\ alive = [j \in LogJobs |-> 0]
    /\ skipped = [j \in LogJobs |-> FALSE]

PodEvent(job_id, phase) == [job_id |-> job_id, phase |-> phase]

\* The pod of job j starts; the watch stream carries the change.
LogPodRunning(j) ==
    /\ pods[j] = "Pending"
    /\ Len(podEvents) < MaxQueue
    /\ pods' = [pods EXCEPT ![j] = "Running"]
    /\ podEvents' = Append(podEvents, PodEvent(j, "Running"))
    /\ UNCHANGED <<compression_method, num_lines_to_check, redelivered, hpc, hjob,
                   files, tails, linked, hadLines, objects, uploads, attempts,
                   alive, skipped>>
    /\ UNCHANGED notLog

\* The pod of job j ends.
LogPodTerminates(j) ==
    /\ pods[j] = "Running"
    /\ Len(podEvents) < MaxQueue
    /\ \E phase \in {"Succeeded", "Failed"} :
         /\ pods' = [pods EXCEPT ![j] = phase]
         /\ podEvents' = Append(podEvents, PodEvent(j, phase))
    /\ UNCHANGED <<compression_method, num_lines_to_check, redelivered, hpc, hjob,
                   files, tails, linked, hadLines, objects, uploads, attempts,
                   alive, skipped>>
    /\ UNCHANGED notLog

\* The pod of job j is reported again in the phase it has: a further
\* MODIFIED event, or the ADDED event of a stream opened without a resource
\* version (k8s_resource_watcher.py:99-102, 122-125).
Redeliver(j) ==
    /\ redelivered < MaxRedeliver
    /\ Len(podEvents) < MaxQueue
    /\ redelivered' = redelivered + 1
    /\ podEvents' = Append(podEvents, PodEvent(j, pods[j]))
    /\ UNCHANGED <<compression_method, num_lines_to_check, pods, hpc, hjob,
                   files, tails, linked, hadLines, objects, uploads, attempts,
                   alive, skipped>>
    /\ UNCHANGED notLog

Terminal == {"Succeeded", "Failed"}

IsAliveNever(job_id) == FALSE
\* log_handler_k8s.py:273-275: the thread registered for the pod is alive
IsAlive(job_id) == tails[job_id] # "none"

\* log_handler_k8s.py:257-285, 296-301: handle_events up to the probe. A
\* Running pod gets a stream_logs thread unless one is alive; for a pod that
\* ended, the local file is looked up (get_existing_log_filename, isfile,
\* getsize > 0).
HandleEvents ==
    /\ hpc = "idle"
    /\ podEvents # <<>>
    /\ podEvents' = Tail(podEvents)
    /\ LET job_id == Head(podEvents).job_id
           phase == Head(podEvents).phase
       IN /\ IF phase = "Running"
             THEN IF IsAlive(job_id)
                  THEN /\ skipped' = [skipped EXCEPT ![job_id] = TRUE]
                       /\ UNCHANGED <<tails, alive>>
                  ELSE /\ tails' = [tails EXCEPT ![job_id] = "started"]
                       /\ alive' = [alive EXCEPT ![job_id] = @ + 1]
                       /\ UNCHANGED skipped
             ELSE UNCHANGED <<tails, alive, skipped>>
          /\ IF phase \in Terminal /\ files[job_id] = "data"
             THEN hpc' = "probe" /\ hjob' = job_id
             ELSE UNCHANGED <<hpc, hjob>>
    /\ UNCHANGED <<compression_method, num_lines_to_check, pods, redelivered,
                   files, linked, hadLines, objects, uploads, attempts>>
    /\ UNCHANGED notLog

\* log_handler_k8s.py:286: object_exists(job_id): the prefix is the job id.
ProbePrefix(job_id) == <<job_id>>

\* handle_events returns, or leaves through its 'except Exception'
\* (log_handler_k8s.py:300-301).
HandlerReturns ==
    /\ hpc' = "idle"
    /\ hjob' = None

\* libcloud_driver.py:191-223 called at log_handler_k8s.py:286. get_container
\* is outside the try: its error reaches the handler's except. An error of
\* the listing gives False.
ObjectExists ==
    /\ hpc = "probe"
    /\ \E outcome \in {"ok", "no_container", "list_error"} :
         CASE outcome = "no_container" -> HandlerReturns
           [] outcome = "list_error" -> hpc' = "upload" /\ UNCHANGED hjob
           [] OTHER ->
                /\ hpc' = IF ObjectsWithPrefix(ProbePrefix(hjob)) # {}
                          THEN "archived" ELSE "upload"
                /\ UNCHANGED hjob
    /\ UNCHANGED <<compression_method, num_lines_to_check, pods, podEvents,
                   redelivered, files, tails, linked, hadLines, objects, uploads,
                   attempts,
                   alive, skipped>>
    /\ UNCHANGED notLog

\* os.remove(log_filename): the path is gone; a thread that has the file
\* open keeps writing to the unlinked file.
Remove(j) ==
    /\ files' = [files EXCEPT ![j] = "absent"]
    /\ linked' = [linked EXCEPT ![j] = FALSE]

\* log_handler_k8s.py:287-291: the log is in storage already.
RemoveArchived ==
    /\ hpc = "archived"
    /\ IF files[hjob] # "absent" THEN Remove(hjob) ELSE UNCHANGED <<files, linked>>
    /\ HandlerReturns
    /\ UNCHANGED <<compression_method, num_lines_to_check, pods, podEvents,
                   redelivered, tails, hadLines, objects, uploads, attempts,
                   alive, skipped>>
    /\ UNCHANGED notLog

\* libcloud_driver.py:153-168: the object name; a compression that fails
\* falls back to the uncompressed name.
UploadNames(project, spider, job_id) ==
    IF compression_method # None
    THEN {CompressedObjectName(project, spider, job_id,
                               COMPRESSION_EXTENSIONS(compression_method)),
          ObjectName(project, spider, job_id)}
    ELSE {ObjectName(project, spider, job_id)}

\* log_handler_k8s.py:293-294 with libcloud_driver.py:127-189:
\*     self.object_storage_provider.upload_file(log_filename)
\*     os.remove(log_filename)
\* A call that does not bind raises, and handle_events leaves through its
\* except before the remove. The body of upload_file logs every error of the
\* upload and returns normally.
UploadAndRemove ==
    /\ hpc = "upload"
    /\ attempts' = [attempts EXCEPT ![hjob] = @ + 1]
    /\ IF ~UploadCallBinds
       THEN UNCHANGED <<objects, uploads, files, linked>>
       ELSE /\ \E outcome \in {"ok", "error"},
                  object_name \in UploadNames(LogProject, LogSpider, hjob) :
                 IF outcome = "ok"
                 THEN /\ objects' = objects \cup {object_name}
                      /\ uploads' = [uploads EXCEPT ![hjob] = @ + 1]
                 ELSE UNCHANGED <<objects, uploads>>
            /\ IF files[hjob] # "absent"
               THEN Remove(hjob)
               ELSE UNCHANGED <<files, linked>>
    /\ HandlerReturns
    /\ UNCHANGED <<compression_method, num_lines_to_check, pods, podEvents,
                   redelivered, tails, hadLines, alive, skipped>>
    /\ UNCHANGED notLog

(***************************************************************************)
(* stream_logs (log_handler_k8s.py:201-255), one thread per pod.           *)
(***************************************************************************)
\* log_handler_k8s.py:217-230: make_log_filename_for_job creates the file if
\* it is missing, get_last_n_lines reads its tail, and the file is opened
\* for appending.
TailOpen(j) ==
    /\ tails[j] = "started"
    /\ tails' = [tails EXCEPT ![j] = "open"]
    /\ files' = [files EXCEPT ![j] = IF @ = "absent" THEN "empty" ELSE @]
    /\ linked' = [linked EXCEPT ![j] = TRUE]
    /\ hadLines' = [hadLines EXCEPT ![j] = files[j] = "data" /\ num_lines_to_check > 0]
    /\ UNCHANGED <<compression_method, num_lines_to_check, pods, podEvents,
                   redelivered, hpc, hjob, objects, uploads, attempts,
                   alive, skipped>>
    /\ UNCHANGED notLog

\* log_handler_k8s.py:231-247: a line of the pod's log. It goes to the
\* temporary file, and to the log file unless it is taken for a repetition
\* of one of last_n_lines.
TailLine(j) ==
    /\ tails[j] \in {"open", "lines"}
    /\ pods[j] # "Pending"
    /\ tails' = [tails EXCEPT ![j] = "lines"]
    /\ \E written \in {TRUE} \cup (IF hadLines[j] THEN {FALSE} ELSE {}) :
         files' = IF written /\ linked[j]
                  THEN [files EXCEPT ![j] = "data"]
                  ELSE files
    /\ UNCHANGED <<compression_method, num_lines_to_check, pods, podEvents,
                   redelivered, hpc, hjob, linked, hadLines, objects, uploads,
                   attempts,
                   alive, skipped>>
    /\ UNCHANGED notLog

\* log_handler_k8s.py:249-253, 143-170: the pod's log ends. With lines of
\* last_n_lines left unmatched the temporary file is appended to the log
\* file, opened by its path in mode 'ab'; else the temporary file is removed.
TailEnd(j) ==
    /\ tails[j] \in {"open", "lines"}
    /\ pods[j] \in Terminal
    /\ tails' = [tails EXCEPT ![j] = "none"]
    /\ linked' = [linked EXCEPT ![j] = FALSE]
    /\ hadLines' = [hadLines EXCEPT ![j] = FALSE]
    /\ \E concatenate \in {FALSE} \cup (IF hadLines[j] THEN {TRUE} ELSE {}) :
         files' = IF concatenate
                  THEN [files EXCEPT ![j] =
                          IF tails[j] = "lines" THEN "data"
                          ELSE IF @ = "absent" THEN "empty" ELSE @]
                  ELSE files
    /\ alive' = [alive EXCEPT ![j] = @ - 1]
    /\ UNCHANGED <<compression_method, num_lines_to_check, pods, podEvents,
                   redelivered, hpc, hjob, objects, uploads, attempts, skipped>>
    /\ UNCHANGED notLog

\* log_handler_k8s.py:254-255: the stream raises; the thread logs and ends.
TailFails(j) ==
    /\ tails[j] \in {"open", "lines"}
    /\ tails' = [tails EXCEPT ![j] = "none"]
    /\ linked' = [linked EXCEPT ![j] = FALSE]
    /\ hadLines' = [hadLines EXCEPT ![j] = FALSE]
    /\ alive' = [alive EXCEPT ![j] = @ - 1]
    /\ UNCHANGED <<compression_method, num_lines_to_check, pods, podEvents,
                   redelivered, hpc, hjob, files, objects, uploads, attempts,
                   skipped>>
    /\ UNCHANGED notLog

LogNext ==
    \/ \E j \in LogJobs : LogPodRunning(j)
    \/ \E j \in LogJobs : LogPodTerminates(j)
    \/ \E j \in LogJobs : Redeliver(j)
    \/ HandleEvents
    \/ ObjectExists
    \/ RemoveArchived
    \/ UploadAndRemove
    \/ \E j \in LogJobs : TailOpen(j)
    \/ \E j \in LogJobs : TailLine(j)
    \/ \E j \in LogJobs : TailEnd(j)
    \/ \E j \in LogJobs : TailFails(j)

(***************************************************************************)
(* The watcher: ResourceWatcher (k8s_resource_watcher.py). Its thread runs *)
(* watch_pods: it opens a watch stream, hands each event of the stream to  *)
(* notify_subscribers, and sleeps before it retries after a failure.       *)
(* Events are numbered in the order the API server sends them.             *)
(***************************************************************************)
\* the callbacks of the service, and one more
Callbacks == {"handle_pod_event", "handle_events", "callback"}
\* the longest list of subscribers
MaxSubscribers == 3
\* the events the API server sends
MaxEvents == 2
\* the events received on a connection and not yet yielded
MaxPending == 2

Range(list) == {list[i] : i \in 1..Len(list)}

\* list.remove(x): the list without the first x
ListRemove(list, x) ==
    LET first == CHOOSE i \in 1..Len(list) :
                    list[i] = x /\ \A k \in 1..(i - 1) : list[k] # x
    IN SubSeq(list, 1, first - 1) \o SubSeq(list, first + 1, Len(list))

\* The watcher is constructed (k8s_resource_watcher.py:21-38): no
\* subscriber, the lock free, the thread at the head of its loop, stop()
\* not called.
FanInit ==
    /\ subscribers = <<>>
    /\ lock = Free
    /\ npc = "check"
    /\ idx = 0
    /\ invoked = [c \in Callbacks |-> 0]
    /\ resubscribed = FALSE
    /\ stop_event = FALSE
    /\ spc = "none"
    /\ wstream = <<>>
    /\ sent = 0
    /\ event = 0
    /\ delivered = [c \in Callbacks |-> <<>>]
    /\ raised = {}
    /\ prev_raised = FALSE

FanQuiet == FanInit

RegistersAlways(callback) == TRUE
\* k8s_resource_watcher.py:50:  if callback not in self.subscribers
Registers(callback) == callback \notin Range(subscribers)

\* k8s_resource_watcher.py:37, 49, 62, 75: self._lock is a threading.Lock:
\* 'with self._lock' goes on when nobody holds the lock, the caller included.
Acquires(t) == lock = Free

\* A call of subscribe or unsubscribe by thread t is over. A call made by
\* the watcher thread was made by the subscriber it is calling
\* (k8s_resource_watcher.py:78), which now returns.
CallReturns(t) ==
    IF t = Worker
    THEN npc' = "notify" /\ idx' = idx + 1
    ELSE UNCHANGED <<npc, idx>>

\* k8s_resource_watcher.py:40-52: subscribe, the whole of it under the lock,
\* called by thread t.
Subscribe(t, callback) ==
    /\ t = Worker => npc = "nested"
    /\ Acquires(t)
    /\ Len(subscribers) < MaxSubscribers
    /\ subscribers' = IF Registers(callback)
                      THEN Append(subscribers, callback)
                      ELSE subscribers
    /\ resubscribed' = (resubscribed \/ callback \in Range(subscribers))
    /\ CallReturns(t)
    /\ UNCHANGED <<lock, invoked, stop_event, spc, wstream, sent, event,
                   delivered, raised, prev_raised>>
    /\ UNCHANGED notFan

\* k8s_resource_watcher.py:53-65: unsubscribe, under the lock, called by
\* thread t.
Unsubscribe(t, callback) ==
    /\ t = Worker => npc = "nested"
    /\ Acquires(t)
    /\ subscribers' = IF callback \in Range(subscribers)
                      THEN ListRemove(subscribers, callback)
                      ELSE subscribers
    /\ CallReturns(t)
    /\ UNCHANGED <<lock, invoked, resubscribed, stop_event, spc, wstream,
                   sent, event, delivered, raised, prev_raised>>
    /\ UNCHANGED notFan

\* k8s_resource_watcher.py:93-102: the loop test finds the stop event clear
\* and the thread opens a watch stream.
WatchOpen ==
    /\ npc = "check"
    /\ ~stop_event
    /\ npc' = "idle"
    /\ wstream' = <<>>
    /\ prev_raised' = FALSE
    /\ UNCHANGED <<subscribers, lock, idx, invoked, resubscribed, stop_event, spc,
                   sent, event, delivered, raised>>
    /\ UNCHANGED notFan

\* k8s_resource_watcher.py:93: the loop test finds the stop event set;
\* watch_pods returns and the thread ends.
WatchExit ==
    /\ npc = "check"
    /\ stop_event
    /\ npc' = "stopped"
    /\ UNCHANGED <<subscribers, lock, idx, invoked, resubscribed, stop_event, spc,
                   wstream, sent, event, delivered, raised, prev_raised>>
    /\ UNCHANGED notFan

\* The API server sends an event on the open connection.
ServerSends ==
    /\ npc \in {"idle", "notify", "nested"}
    /\ sent < MaxEvents
    /\ Len(wstream) < MaxPending
    /\ sent' = sent + 1
    /\ wstream' = Append(wstream, sent + 1)
    /\ UNCHANGED <<subscribers, lock, npc, idx, invoked, resubscribed, stop_event,
                   spc, event, delivered, raised, prev_raised>>
    /\ UNCHANGED notFan

NextEventLast(received) == received[Len(received)]
\* k8s_resource_watcher.py:102: 'for event in w.stream(...)' yields the
\* events of the connection in the order they were received
NextEvent(received) == Head(received)

\* k8s_resource_watcher.py:102-113, 75: the watcher thread takes the next
\* event of the stream and enters notify_subscribers: it takes the lock.
NotifyAcquire ==
    /\ npc = "idle"
    /\ wstream # <<>>
    /\ lock = Free
    /\ lock' = {Worker}
    /\ npc' = "notify"
    /\ idx' = 1
    /\ invoked' = [c \in Callbacks |-> 0]
    /\ event' = NextEvent(wstream)
    /\ wstream' = SelectSeq(wstream, LAMBDA e : e # NextEvent(wstream))
    /\ raised' = {}
    /\ UNCHANGED <<subscribers, resubscribed, stop_event, spc, sent, delivered,
                   prev_raised>>
    /\ UNCHANGED notFan

CaughtNever(exc) == FALSE
\* k8s_resource_watcher.py:79:  except Exception as e
CaughtByNotify(exc) == exc = "Exception"

\* k8s_resource_watcher.py:76-80: the next subscriber is called with the
\* event; an exception it raises is logged and the loop goes on. An
\* exception that left notify_subscribers would release the lock and reach
\* the 'except Exception' of watch_pods (135-139).
NotifyCall ==
    /\ npc = "notify"
    /\ idx <= Len(subscribers)
    /\ LET subscriber == subscribers[idx]
       IN /\ invoked' = [invoked EXCEPT ![subscriber] = @ + 1]
          /\ delivered' = [delivered EXCEPT ![subscriber] = Append(@, event)]
          /\ \E exc \in {None, "Exception"} :
               /\ raised' = IF exc = None THEN raised ELSE raised \cup {subscriber}
               /\ IF exc = None \/ CaughtByNotify(exc)
                  THEN /\ idx' = idx + 1
                       /\ UNCHANGED <<lock, npc, wstream>>
                  ELSE /\ lock' = Free
                       /\ npc' = "sleep"
                       /\ wstream' = <<>>
                       /\ UNCHANGED idx
    /\ UNCHANGED <<subscribers, resubscribed, stop_event, spc, sent, event,
                   prev_raised>>
    /\ UNCHANGED notFan

\* k8s_resource_watcher.py:76-78 with 49, 62: the next subscriber is called
\* with the event, and it calls subscribe or unsubscribe of the watcher: the
\* watcher thread, inside the 'with self._lock' of notify_subscribers, is at
\* the 'with self._lock' of that call.
CallbackCalls ==
    /\ npc = "notify"
    /\ idx <= Len(subscribers)
    /\ LET subscriber == subscribers[idx]
       IN /\ invoked' = [invoked EXCEPT ![subscriber] = @ + 1]
          /\ delivered' = [delivered EXCEPT ![subscriber] = Append(@, event)]
    /\ npc' = "nested"
    /\ UNCHANGED <<subscribers, lock, idx, resubscribed, stop_event, spc, wstream,
                   sent, event, raised, prev_raised>>
    /\ UNCHANGED notFan

\* The loop of notify_subscribers is over: the lock is released and the
\* thread is back in the 'for' of watch_pods (k8s_resource_watcher.py:102).
NotifyRelease ==
    /\ npc = "notify"
    /\ idx > Len(subscribers)
    /\ lock' = Free
    /\ npc' = "idle"
    /\ prev_raised' = (raised # {})
    /\ UNCHANGED <<subscribers, idx, invoked, resubscribed, stop_event, spc,
                   wstream, sent, event, delivered, raised>>
    /\ UNCHANGED notFan

\* k8s_resource_watcher.py:102, 121-126, 132-134: the stream ends (the
\* server closes the connection, or answers 410 Gone): back to the loop test.
StreamEnds ==
    /\ npc = "idle"
    /\ npc' = "check"
    /\ wstream' = <<>>
    /\ UNCHANGED <<subscribers, lock, idx, invoked, resubscribed, stop_event, spc,
                   sent, event, delivered, raised, prev_raised>>
    /\ UNCHANGED notFan

\* k8s_resource_watcher.py:114-119, 127-130, 135-138: the stream raises;
\* the thread calls time.sleep(backoff_time).
StreamFails ==
    /\ npc = "idle"
    /\ npc' = "sleep"
    /\ wstream' = <<>>
    /\ UNCHANGED <<subscribers, lock, idx, invoked, resubscribed, stop_event, spc,
                   sent, event, delivered, raised, prev_raised>>
    /\ UNCHANGED notFan

\* k8s_resource_watcher.py:119-120, 130-131, 138-139: the sleep is over;
\* back to the loop test.
WakeUp ==
    /\ npc = "sleep"
    /\ npc' = "check"
    /\ UNCHANGED <<subscribers, lock, idx, invoked, resubscribed, stop_event, spc,
                   wstream, sent, event, delivered, raised, prev_raised>>
    /\ UNCHANGED notFan

\* k8s_resource_watcher.py:141-146: stop() sets the stop event and joins
\* the watcher thread.
Stop ==
    /\ spc = "none"
    /\ stop_event' = TRUE
    /\ spc' = "join"
    /\ UNCHANGED <<subscribers, lock, npc, idx, invoked, resubscribed, wstream,
                   sent, event, delivered, raised, prev_raised>>
    /\ UNCHANGED notFan

\* k8s_resource_watcher.py:146-147: the thread has ended; join and stop()
\* return.
StopReturns ==
    /\ spc = "join"
    /\ npc = "stopped"
    /\ spc' = "returned"
    /\ UNCHANGED <<subscribers, lock, npc, idx, invoked, resubscribed, stop_event,
                   wstream, sent, event, delivered, raised, prev_raised>>
    /\ UNCHANGED notFan

FanNext ==
    \/ \E t \in Threads, callback \in Callbacks : Subscribe(t, callback)
    \/ \E t \in Threads, callback \in Callbacks : Unsubscribe(t, callback)
    \/ WatchOpen
    \/ WatchExit
    \/ ServerSends
    \/ NotifyAcquire
    \/ NotifyCall
    \/ CallbackCalls
    \/ NotifyRelease
    \/ StreamEnds
    \/ StreamFails
    \/ WakeUp
    \/ Stop
    \/ StopReturns

(***************************************************************************)
(* The connection loop of the watcher (k8s_resource_watcher.py:21-38,      *)
(* 82-139): the constructor that starts the thread, and in the thread the  *)
(* streams it opens, the events it receives and the sleeps between.        *)
(* Resource versions are 1, 2, ...; NoneRv is no resource version.         *)
(***************************************************************************)
Min(a, b) == IF a < b THEN a ELSE b

NoneRv == 0

\* k8s_resource_watcher.py:120, 131, 139:  min(..., 900)
MaxBackoff == 900

\* k8s_resource_watcher.py:32  int(config.scrapyd().get('backoff_coefficient', 2))
backoff_coefficient == 2

\* k8s_resource_watcher.py:31: the configured backoff_time, in seconds
BackoffTimes == {300, 1000}

\* k8s_resource_watcher.py:114-116, 121, 135: what a stream raises, but for
\* the ApiException of status 410
StreamErrors == {"ProtocolError", "ApiException", "Exception"}

\* The thread before it runs.
NoLoop == [pc |-> "unstarted", backoff_time |-> 0, resource_version |-> NoneRv,
           first_event |-> FALSE, kwargs |-> NoneRv]

\* Nothing has happened: opened: a stream has been opened; slept: the thread
\* has slept since the last stream was opened; failures: the streams that
\* failed; consecutive: those of them since the last event was received;
\* n: the failures before the last one since the last event; last_sleep:
\* the seconds of the last sleep; dispatched: the resource version of the
\* last event notify_subscribers has dispatched; gone: the resource version
\* was dropped for a 410 and none was received since; lost: an event was
\* received whose dispatch raised.
NoHist == [opened |-> FALSE, slept |-> FALSE, failures |-> 0, consecutive |-> 0,
           n |-> 0, last_sleep |-> 0, dispatched |-> NoneRv, gone |-> FALSE,
           lost |-> FALSE]

\* k8s_resource_watcher.py:21-35: the constructor is about to start the
\* thread; the API server has sent nothing.
WatchInit ==
    /\ cfg_backoff_time \in BackoffTimes
    /\ ctor = "thread"
    /\ wloop = NoLoop
    /\ apisrv = [latest |-> 0, next |-> 1]
    /\ whist = NoHist

\* The loop is not looked at: the constructor is over and the thread is at
\* the head of its loop.
WatchQuiet ==
    /\ cfg_backoff_time = 300
    /\ ctor = "done"
    /\ wloop = [NoLoop EXCEPT !.pc = "loop", !.backoff_time = 300]
    /\ apisrv = [latest |-> 0, next |-> 1]
    /\ whist = NoHist

\* k8s_resource_watcher.py:35-36, 87-93: watcher_thread.start(); the thread
\* runs watch_pods up to the head of its loop.
ThreadStart ==
    /\ ctor = "thread"
    /\ ctor' = "lock"
    /\ wloop' = [NoLoop EXCEPT !.pc = "loop", !.backoff_time = cfg_backoff_time]
    /\ UNCHANGED <<cfg_backoff_time, apisrv, whist>>
    /\ UNCHANGED notWatch

\* k8s_resource_watcher.py:37-38:  self._lock = threading.Lock()
LockCreated ==
    /\ ctor = "lock"
    /\ ctor' = "done"
    /\ UNCHANGED <<cfg_backoff_time, wloop, apisrv, whist>>
    /\ UNCHANGED notWatch

\* A pod changes: the API server has a new resource version.
ApiEvent ==
    /\ apisrv.latest < MaxRv
    /\ apisrv' = [apisrv EXCEPT !.latest = @ + 1]
    /\ UNCHANGED <<cfg_backoff_time, ctor, wloop, whist>>
    /\ UNCHANGED notWatch

\* k8s_resource_watcher.py:93-102: the kwargs take resource_version when it
\* is set, first_event = True, and the stream is opened: the server sends
\* the events after that version, or all of them.
OpenStream ==
    /\ wloop.pc = "loop"
    /\ wloop' = [wloop EXCEPT !.pc = "streaming",
                              !.kwargs = wloop.resource_version,
                              !.first_event = TRUE]
    /\ apisrv' = [apisrv EXCEPT !.next = wloop.resource_version + 1]
    /\ whist' = [whist EXCEPT !.opened = TRUE, !.slept = FALSE]
    /\ UNCHANGED <<cfg_backoff_time, ctor>>
    /\ UNCHANGED notWatch

\* k8s_resource_watcher.py:102-113 with 75 and 135-139: the stream yields
\* the next event; the first event of a stream resets backoff_time; the
\* resource version of the event is kept and notify_subscribers is called.
\* Its 'with self._lock' raises AttributeError when the constructor has not
\* made the lock yet: the 'except Exception' of the loop sleeps.
ReceiveEvent ==
    /\ wloop.pc = "streaming"
    /\ apisrv.next <= apisrv.latest
    /\ apisrv' = [apisrv EXCEPT !.next = @ + 1]
    /\ LET received == apisrv.next
           backoff == IF wloop.first_event THEN cfg_backoff_time
                      ELSE wloop.backoff_time
       IN IF ctor = "done"
          THEN /\ wloop' = [wloop EXCEPT !.backoff_time = backoff,
                                         !.first_event = FALSE,
                                         !.resource_version = received]
               /\ whist' = [whist EXCEPT !.consecutive = 0,
                                         !.gone = FALSE,
                                         !.dispatched = received]
          ELSE /\ wloop' = [wloop EXCEPT !.pc = "sleep",
                                         !.backoff_time = backoff,
                                         !.first_event = FALSE,
                                         !.resource_version = received]
               /\ whist' = [whist EXCEPT !.consecutive = 1,
                                         !.n = 0,
                                         !.gone = FALSE,
                                         !.lost = TRUE,
                                         !.slept = TRUE,
                                         !.last_sleep = backoff]
    /\ UNCHANGED <<cfg_backoff_time, ctor>>
    /\ UNCHANGED notWatch

\* k8s_resource_watcher.py:114-119, 127-130, 135-138: the stream raises a
\* network error, an ApiException of another status than 410, or any other
\* exception: time.sleep(backoff_time).
StreamRaises ==
    /\ wloop.pc = "streaming"
    /\ whist.failures < MaxFails
    /\ \E exc \in StreamErrors :
         /\ wloop' = [wloop EXCEPT !.pc = "sleep"]
         /\ whist' = [whist EXCEPT !.failures = @ + 1,
                                   !.consecutive = @ + 1,
                                   !.n = whist.consecutive,
                                   !.slept = TRUE,
                                   !.last_sleep = wloop.backoff_time]
    /\ UNCHANGED <<cfg_backoff_time, ctor, apisrv>>
    /\ UNCHANGED notWatch

\* k8s_resource_watcher.py:120, 131, 139: the sleep is over:
\* backoff_time = min(backoff_time*self.backoff_coefficient, 900)
SleepReturns ==
    /\ wloop.pc = "sleep"
    /\ wloop' = [wloop EXCEPT
                   !.pc = "loop",
                   !.backoff_time = Min(@ * backoff_coefficient, MaxBackoff)]
    /\ UNCHANGED <<cfg_backoff_time, ctor, apisrv, whist>>
    /\ UNCHANGED notWatch

\* k8s_resource_watcher.py:121-126: the server answers 410 Gone to a stream
\* opened with a resource version: resource_version = None; continue
StreamGone ==
    /\ wloop.pc = "streaming"
    /\ wloop.kwargs # NoneRv
    /\ whist.failures < MaxFails
    /\ wloop' = [wloop EXCEPT !.pc = "loop", !.resource_version = NoneRv]
    /\ whist' = [whist EXCEPT !.failures = @ + 1,
                              !.consecutive = @ + 1,
                              !.n = whist.consecutive,
                              !.gone = TRUE]
    /\ UNCHANGED <<cfg_backoff_time, ctor, apisrv>>
    /\ UNCHANGED notWatch

\* k8s_resource_watcher.py:93, 102: the server closes the stream: the 'for'
\* is over and the 'while' goes round.
StreamStops ==
    /\ wloop.pc = "streaming"
    /\ wloop' = [wloop EXCEPT !.pc = "loop"]
    /\ UNCHANGED <<cfg_backoff_time, ctor, apisrv, whist>>
    /\ UNCHANGED notWatch

WatchNext ==
    \/ ThreadStart
    \/ LockCreated
    \/ ApiEvent
    \/ OpenStream
    \/ ReceiveEvent
    \/ StreamRaises
    \/ SleepReturns
    \/ StreamGone
    \/ StreamStops

(***************************************************************************)
(* stream_logs line by line (log_handler_k8s.py:201-255): the thread of    *)
(* one pod, the log file it appends to and the temporary file next to it.  *)
(* The log file fits in one block of get_last_n_lines, so that the lines   *)
(* it returns are whole lines of the file.                                 *)
(***************************************************************************)
\* the lines a log is made of
Lines == {"a", "b"}
\* the most lines in the log file when the thread starts
MaxFile == 3
\* the most lines the pod's log stream yields
MaxLog == 4
\* the largest num_lines_to_check
MaxCheck == 2

SeqsUpTo(S, n) == UNION {[1..k -> S] : k \in 0..n}

\* log_handler_k8s.py:96-141: with num_lines = 0 nothing is read and the
\* result is []; else lines[-num_lines:]
GetLastNLines(lines, num_lines) ==
    IF num_lines = 0
    THEN <<>>
    ELSE SubSeq(lines, Len(lines) - Min(num_lines, Len(lines)) + 1, Len(lines))

\* No stream_logs thread.
TailQuiet ==
    /\ main_file = <<>>
    /\ pod_log = <<>>
    /\ last_n_lines = <<>>
    /\ log_lines_counter = 0
    /\ temp_logs = None
    /\ tpc = "none"
    /\ old_content = <<>>
    /\ replayed = <<>>

\* handle_events has started a stream_logs thread (log_handler_k8s.py:278-
\* 282) for a pod; the log file holds the lines an earlier thread wrote.
TailInit ==
    /\ main_file \in SeqsUpTo(Lines, MaxFile)
    /\ pod_log \in SeqsUpTo(Lines, MaxLog)
    /\ last_n_lines = <<>>
    /\ log_lines_counter = 0
    /\ temp_logs = None
    /\ tpc = "start"
    /\ old_content = main_file
    /\ replayed = pod_log

\* log_handler_k8s.py:217-230: the tail of the log file is read, the log
\* file is opened for appending and the temporary file is created.
StreamLogsStart ==
    /\ tpc = "start"
    /\ last_n_lines' = GetLastNLines(main_file, num_lines_to_check)
    /\ log_lines_counter' = 0
    /\ temp_logs' = <<>>
    /\ tpc' = "stream"
    /\ UNCHANGED <<main_file, pod_log, old_content, replayed>>
    /\ UNCHANGED logVars
    /\ UNCHANGED notTail

\* log_handler_k8s.py:231-247: the next line of the stream goes to the
\* temporary file; it goes to the log file when the counter has reached
\* len(last_n_lines); else the counter advances on a line equal to
\* last_n_lines[log_lines_counter] and is reset on any other line.
StreamLogsLine ==
    /\ tpc = "stream"
    /\ pod_log # <<>>
    /\ LET line == Head(pod_log)
       IN /\ pod_log' = Tail(pod_log)
          /\ temp_logs' = Append(temp_logs, line)
          /\ IF log_lines_counter = Len(last_n_lines)
             THEN /\ main_file' = Append(main_file, line)
                  /\ UNCHANGED log_lines_counter
             ELSE /\ log_lines_counter' =
                        IF line = last_n_lines[log_lines_counter + 1]
                        THEN log_lines_counter + 1
                        ELSE 0
                  /\ UNCHANGED main_file
    /\ UNCHANGED <<last_n_lines, tpc, old_content, replayed>>
    /\ UNCHANGED logVars
    /\ UNCHANGED notTail

ConcatenatesGe(last, counter) == Len(last) >= counter
\* log_handler_k8s.py:249:  if len(last_n_lines) > log_lines_counter
Concatenates(last, counter) == Len(last) > counter

\* log_handler_k8s.py:249-253, 143-170: the stream has ended. The temporary
\* file is appended to the log file if the counter has not reached
\* len(last_n_lines); the temporary file is removed.
StreamLogsEnd ==
    /\ tpc = "stream"
    /\ pod_log = <<>>
    /\ main_file' = IF Concatenates(last_n_lines, log_lines_counter)
                    THEN main_file \o temp_logs
                    ELSE main_file
    /\ temp_logs' = None
    /\ tpc' = "done"
    /\ UNCHANGED <<pod_log, last_n_lines, log_lines_counter, old_content, replayed>>
    /\ UNCHANGED logVars
    /\ UNCHANGED notTail

\* log_handler_k8s.py:231-237, 254-255: the stream raises (the pod is gone,
\* the connection breaks): the 'with' blocks close the two files, the
\* temporary file was made with delete=False and stays, and the exception
\* is logged; the thread ends.
StreamLogsRaises ==
    /\ tpc = "stream"
    /\ tpc' = "failed"
    /\ UNCHANGED <<main_file, pod_log, last_n_lines, log_lines_counter, temp_logs,
                   old_content, replayed>>
    /\ UNCHANGED logVars
    /\ UNCHANGED notTail

TailNext ==
    \/ StreamLogsStart
    \/ StreamLogsLine
    \/ StreamLogsEnd
    \/ StreamLogsRaises

\* One configuration of the scheduler, at rest.
SchedQuiet ==
    /\ SchedInit
    /\ driver = "k8s"
    /\ cfg_max_proc = <<1>>

Init == SchedInit /\ LogQuiet /\ FanQuiet /\ WatchQuiet /\ TailQuiet

Next == SchedNext

Spec == Init /\ [][Next]_vars

(***************************************************************************)
(* The hand-over scenario of tests/integration/test_maxproc_one.py: the    *)
(* Kubernetes driver with max_proc = 1 and two jobs, no cancel. The watcher *)
(* thread keeps running, a schedule call in progress completes, and the    *)
(* pod of an un-suspended job starts.                                      *)
(***************************************************************************)
J1 == <<"p1", "a">>
J2 == <<"p1", "b">>

HandoverInit ==
    /\ SchedInit /\ LogQuiet /\ FanQuiet /\ WatchQuiet /\ TailQuiet
    /\ driver = "k8s"
    /\ cfg_max_proc = <<1>>

HandoverNext ==
    \/ \E t \in Clients, n \in {J1, J2} : K8sScheduleCount(t, n)
    \/ \E t \in Clients : K8sScheduleCreate(t)
    \/ \E n \in Names : PodRunning(n)
    \/ \E n \in Names : PodTerminates(n)
    \/ HandlePodEvent
    \/ PassCount(Worker)
    \/ PassNext(Worker)
    \/ K8sPassUnsuspend(Worker)

HandoverFairness ==
    /\ WF_vars(\E t \in Clients : K8sScheduleCreate(t))
    /\ WF_vars(\E n \in Names : PodRunning(n))
    /\ WF_vars(HandlePodEvent)
    /\ WF_vars(PassCount(Worker))
    /\ WF_vars(PassNext(Worker))
    /\ WF_vars(K8sPassUnsuspend(Worker))

HandoverSpec == HandoverInit /\ [][HandoverNext]_vars /\ HandoverFairness

(***************************************************************************)
(* The round trip of test_api.py:128-160: a client schedules job J1 and    *)
(* cancels it, while another client schedules J2; max_proc = 1, either     *)
(* driver. Every call in progress completes, a pod that can start starts,  *)
(* every process ends, and the watcher and the background thread keep      *)
(* running.                                                                *)
(***************************************************************************)
RoundTripInit ==
    /\ SchedInit /\ LogQuiet /\ FanQuiet /\ WatchQuiet /\ TailQuiet
    /\ cfg_max_proc = <<1>>

RoundTripNext ==
    \/ K8sScheduleCount(1, J1)
    \/ K8sScheduleCount(2, J2)
    \/ \E t \in Clients : K8sScheduleCreate(t)
    \/ DockerScheduleCreate(1, J1)
    \/ DockerScheduleCreate(2, J2)
    \/ \E t \in Clients : DockerScheduleCount(t)
    \/ jobs[J1].exists /\ K8sCancel(1, ProjectOf(J1), JobIdOf(J1))
    \/ K8sCancelAct(1)
    \/ jobs[J1].exists /\ DockerCancel(1, ProjectOf(J1), JobIdOf(J1))
    \/ DockerCancelAct(1)
    \/ \E n \in Names : PodRunning(n)
    \/ \E n \in Names : PodTerminates(n)
    \/ \E n \in Names : ContainerExits(n)
    \/ HandlePodEvent
    \/ BackgroundTask
    \/ \E t \in Threads : PassCount(t)
    \/ \E t \in Threads : PassNext(t)
    \/ K8sPassUnsuspend(Worker)
    \/ \E t \in Threads : DockerPassStart(t)

RoundTripFairness ==
    /\ \A t \in Clients :
          /\ WF_vars(K8sScheduleCreate(t))
          /\ WF_vars(DockerScheduleCount(t))
    /\ WF_vars(K8sCancelAct(1))
    /\ WF_vars(DockerCancelAct(1))
    /\ \A n \in Names :
          /\ SF_vars(PodRunning(n))
          /\ SF_vars(PodTerminates(n))
          /\ WF_vars(ContainerExits(n))
    /\ WF_vars(HandlePodEvent)
    /\ SF_vars(BackgroundTask)
    /\ \A t \in Threads :
          /\ WF_vars(PassCount(t))
          /\ WF_vars(PassNext(t))
          /\ WF_vars(DockerPassStart(t))
    /\ WF_vars(K8sPassUnsuspend(Worker))

RoundTripSpec == RoundTripInit /\ [][RoundTripNext]_vars /\ RoundTripFairness

(***************************************************************************)
(* The service with max_proc left out of the configuration: clients        *)
(* schedule jobs, pods start, the watcher hands their events to the        *)
(* scheduler.                                                              *)
(***************************************************************************)
UnsetInit ==
    /\ driver \in {"k8s", "docker"}
    /\ cfg_max_proc = Unset
    /\ faults = FALSE
    /\ jobs = [n \in Names |-> NoJob]
    /\ clock = 0
    /\ pc = [t \in Threads |-> "idle"]
    /\ loc = [t \in Threads |-> IdleLoc]
    /\ stream = <<>>
    /\ bglock = Free
    /\ resp = NoResp
    /\ LogQuiet /\ FanQuiet /\ WatchQuiet /\ TailQuiet

UnsetNext ==
    \/ \E n \in Names : K8sScheduleCount(1, n)
    \/ K8sScheduleCreate(1)
    \/ \E n \in Names : DockerScheduleCreate(1, n)
    \/ DockerScheduleCount(1)
    \/ \E n \in Names : PodRunning(n)
    \/ HandlePodEvent

UnsetSpec == UnsetInit /\ [][UnsetNext]_vars

(***************************************************************************)
(* The service with a backend whose API calls may fail (max_proc = 1):     *)
(* a client schedules and cancels jobs, workloads run and end, and the     *)
(* passes run.                                                             *)
(***************************************************************************)
FaultInit ==
    /\ driver \in {"k8s", "docker"}
    /\ cfg_max_proc = <<1>>
    /\ faults = TRUE
    /\ jobs = [n \in Names |-> NoJob]
    /\ clock = 0
    /\ pc = [t \in Threads |-> "idle"]
    /\ loc = [t \in Threads |-> IdleLoc]
    /\ stream = <<>>
    /\ bglock = Free
    /\ resp = NoResp
    /\ LogQuiet /\ FanQuiet /\ WatchQuiet /\ TailQuiet

FaultNext ==
    \/ \E n \in Requested : K8sScheduleCount(1, n)
    \/ K8sScheduleCreate(1)
    \/ \E n \in Requested : DockerScheduleCreate(1, n)
    \/ DockerScheduleCount(1)
    \/ \E project \in Projects, job_id \in JobIds : K8sCancel(1, project, job_id)
    \/ K8sCancelAct(1)
    \/ \E project \in Projects, job_id \in JobIds : DockerCancel(1, project, job_id)
    \/ DockerCancelAct(1)
    \/ \E n \in Names : PodRunning(n)
    \/ \E n \in Names : PodTerminates(n)
    \/ \E n \in Names : ContainerExits(n)
    \/ HandlePodEvent
    \/ BackgroundTask
    \/ \E t \in Threads : PassCount(t)
    \/ \E t \in Threads : PassNext(t)
    \/ K8sPassUnsuspend(Worker)
    \/ \E t \in Threads : DockerPassStart(t)

FaultSpec == FaultInit /\ [][FaultNext]_vars

(***************************************************************************)
(* The same service seen through /listjobs.json: a client schedules and    *)
(* cancels the jobs J1 and J2, clients ask for the list of jobs, workloads *)
(* run and end, a running container may be paused.                         *)
(***************************************************************************)
ListInit == FaultInit

ListNext ==
    \/ \E n \in {J1, J2} : K8sScheduleCount(1, n)
    \/ K8sScheduleCreate(1)
    \/ \E n \in {J1, J2} : DockerScheduleCreate(1, n)
    \/ DockerScheduleCount(1)
    \/ \E n \in {J1, J2} : K8sCancel(1, ProjectOf(n), JobIdOf(n))
    \/ K8sCancelAct(1)
    \/ \E n \in {J1, J2} : DockerCancel(1, ProjectOf(n), JobIdOf(n))
    \/ DockerCancelAct(1)
    \/ \E project \in Projects \cup {None} : ListJobs(project)
    \/ \E n \in Names : PodRunning(n)
    \/ \E n \in Names : PodTerminates(n)
    \/ \E n \in Names : ContainerExits(n)
    \/ \E n \in Names : ContainerPaused(n)
    \/ \E n \in Names : ContainerResumed(n)
    \/ HandlePodEvent
    \/ \E t \in Threads : PassCount(t)
    \/ \E t \in Threads : PassNext(t)
    \/ K8sPassUnsuspend(Worker)
    \/ \E t \in Threads : DockerPassStart(t)

ListSpec == ListInit /\ [][ListNext]_vars

(***************************************************************************)
(* The Kubernetes driver with max_proc up to MaxProcPass, where no         *)
(* schedule or cancel call takes a step while the watcher thread is in     *)
(* handle_pod_event; pods start and end at any time.                       *)
(***************************************************************************)
(***************************************************************************)
(* The Kubernetes scheduler under every kind of pod event: pods of jobs    *)
(* and pods of others, listed, modified and deleted, in every phase.       *)
(***************************************************************************)
EventInit ==
    /\ driver = "k8s"
    /\ cfg_max_proc = <<1>>
    /\ faults = FALSE
    /\ jobs = [n \in Names |-> NoJob]
    /\ clock = 0
    /\ pc = [t \in Threads |-> "idle"]
    /\ loc = [t \in Threads |-> IdleLoc]
    /\ stream = <<>>
    /\ bglock = Free
    /\ resp = NoResp
    /\ LogQuiet /\ FanQuiet /\ WatchQuiet /\ TailQuiet

EventNext ==
    \/ \E n \in Requested : K8sScheduleCount(1, n)
    \/ K8sScheduleCreate(1)
    \/ \E project \in Projects, job_id \in JobIds : K8sCancel(1, project, job_id)
    \/ K8sCancelAct(1)
    \/ \E n \in Names : PodRunning(n)
    \/ \E n \in Names : PodTerminates(n)
    \/ \E n \in Names : PodListed(n)
    \/ ForeignPodEvent
    \/ HandlePodEvent
    \/ PassCount(Worker)
    \/ PassNext(Worker)
    \/ K8sPassUnsuspend(Worker)

EventSpec == EventInit /\ [][EventNext]_vars

(***************************************************************************)
(* get_next_suspended_job_id over the job tables a namespace can hold. The *)
(* creationTimestamp of a job has a resolution of one second: jobs made in *)
(* the same second have equal timestamps.                                  *)
(***************************************************************************)
\* The job objects of a namespace, with creation times up to MaxStamp.
JobObjects ==
    {NoJob} \cup
    {[exists |-> TRUE, suspend |-> suspend, phase |-> phase,
      created |-> created, signalled |-> FALSE] :
        suspend \in BOOLEAN, phase \in {"none", "Running", "Succeeded"},
        created \in 1..MaxStamp}

SelectInit ==
    /\ driver = "k8s"
    /\ cfg_max_proc = <<1>>
    /\ faults = FALSE
    /\ jobs \in [Names -> JobObjects]
    /\ \A n \in Names :
         /\ n \notin Requested => jobs[n] = NoJob
         /\ jobs[n].suspend => jobs[n].phase = "none"
         /\ jobs[n].exists /\ ~jobs[n].suspend => jobs[n].phase # "none"
    /\ clock = MaxStamp
    /\ pc = [t \in Threads |-> "idle"]
    /\ loc = [t \in Threads |-> IdleLoc]
    /\ stream = <<>>
    /\ bglock = Free
    /\ resp = NoResp
    /\ LogQuiet /\ FanQuiet /\ WatchQuiet /\ TailQuiet

SelectNext ==
    \/ \E n \in Names : PodRunning(n)
    \/ \E n \in Names : PodTerminates(n)
    \/ HandlePodEvent
    \/ PassCount(Worker)
    \/ PassNext(Worker)
    \/ K8sPassUnsuspend(Worker)

SelectSpec == SelectInit /\ [][SelectNext]_vars

(***************************************************************************)
(* The Kubernetes scheduler, max_proc = 1, with a client that schedules    *)
(* J1 and J2 and cancels them, and a watch that may be restarted. A call   *)
(* in progress completes, a pod that can start starts, a pod that runs     *)
(* ends, and the watcher thread keeps running.                             *)
(***************************************************************************)
StarveNext ==
    \/ \E n \in {J1, J2} : K8sScheduleCount(1, n)
    \/ K8sScheduleCreate(1)
    \/ \E job_id \in JobIds : K8sCancel(1, "p1", job_id)
    \/ K8sCancelAct(1)
    \/ \E n \in Names : PodRunning(n)
    \/ \E n \in Names : PodTerminates(n)
    \/ \E n \in Names : PodListed(n)
    \/ HandlePodEvent
    \/ PassCount(Worker)
    \/ PassNext(Worker)
    \/ K8sPassUnsuspend(Worker)

StarveFairness ==
    /\ WF_vars(K8sScheduleCreate(1))
    /\ WF_vars(K8sCancelAct(1))
    /\ \A n \in Names :
          /\ SF_vars(PodRunning(n))
          /\ SF_vars(PodTerminates(n))
    /\ WF_vars(HandlePodEvent)
    /\ WF_vars(PassCount(Worker))
    /\ WF_vars(PassNext(Worker))
    /\ WF_vars(K8sPassUnsuspend(Worker))

StarveSpec == EventInit /\ [][StarveNext]_vars /\ StarveFairness

SoloPassInit ==
    /\ driver = "k8s"
    /\ cfg_max_proc \in {<<m>> : m \in 0..MaxProcPass}
    /\ faults = FALSE
    /\ jobs = [n \in Names |-> NoJob]
    /\ clock = 0
    /\ pc = [t \in Threads |-> "idle"]
    /\ loc = [t \in Threads |-> IdleLoc]
    /\ stream = <<>>
    /\ bglock = Free
    /\ resp = NoResp
    /\ LogQuiet /\ FanQuiet /\ WatchQuiet /\ TailQuiet

NoPass == pc[Worker] = "idle"

SoloPassNext ==
    \/ NoPass /\ \E t \in Clients, n \in Requested : K8sScheduleCount(t, n)
    \/ NoPass /\ \E t \in Clients : K8sScheduleCreate(t)
    \/ NoPass /\ \E t \in Cancellers, project \in Projects, job_id \in JobIds :
                    K8sCancel(t, project, job_id)
    \/ NoPass /\ \E t \in Cancellers : K8sCancelAct(t)
    \/ \E n \in Names : PodRunning(n)
    \/ \E n \in Names : PodTerminates(n)
    \/ HandlePodEvent
    \/ PassCount(Worker)
    \/ PassNext(Worker)
    \/ K8sPassUnsuspend(Worker)

SoloPassSpec == SoloPassInit /\ [][SoloPassNext]_vars

\* The log pipeline alone.
LogSpecInit == SchedQuiet /\ LogInit /\ FanQuiet /\ WatchQuiet /\ TailQuiet

LogSpec == LogSpecInit /\ [][LogNext]_vars

\* The log pipeline with a storage container that holds an object of job
\* "a": its log as upload_file names it, plain or compressed, or an object
\* named after the local file.
ProbeInit ==
    /\ compression_method = None
    /\ num_lines_to_check = 0
    /\ pods = [j \in LogJobs |-> "Pending"]
    /\ podEvents = <<>>
    /\ redelivered = 0
    /\ hpc = "idle"
    /\ hjob = None
    /\ files = [j \in LogJobs |-> "absent"]
    /\ tails = [j \in LogJobs |-> "none"]
    /\ linked = [j \in LogJobs |-> FALSE]
    /\ hadLines = [j \in LogJobs |-> FALSE]
    /\ objects \in {{ObjectName(LogProject, LogSpider, "a")},
                    {CompressedObjectName(LogProject, LogSpider, "a",
                                          COMPRESSION_EXTENSIONS("gzip"))},
                    {LegacyObject("a")}}
    /\ uploads = [j \in LogJobs |-> 0]
    /\ attempts = [j \in LogJobs |-> 0]
    /\ alive = [j \in LogJobs |-> 0]
    /\ skipped = [j \in LogJobs |-> FALSE]

ProbeSpecInit == SchedQuiet /\ ProbeInit /\ FanQuiet /\ WatchQuiet /\ TailQuiet

ProbeSpec == ProbeSpecInit /\ [][LogNext]_vars

\* The connection loop alone.
WatchSpecInit == SchedQuiet /\ LogQuiet /\ FanQuiet /\ WatchInit /\ TailQuiet

WatchSpec == WatchSpecInit /\ [][WatchNext]_vars

\* The fan-out alone.
FanSpecInit == SchedQuiet /\ LogQuiet /\ FanInit /\ WatchQuiet /\ TailQuiet

FanSpec == FanSpecInit /\ [][FanNext]_vars

\* LogQuiet but for num_lines_to_check, which is any value up to MaxCheck
\* (log_handler_k8s.py:71).
LogChecks ==
    /\ compression_method = None
    /\ num_lines_to_check \in 0..MaxCheck
    /\ pods = [j \in LogJobs |-> "Pending"]
    /\ podEvents = <<>>
    /\ redelivered = 0
    /\ hpc = "idle"
    /\ hjob = None
    /\ files = [j \in LogJobs |-> "absent"]
    /\ tails = [j \in LogJobs |-> "none"]
    /\ linked = [j \in LogJobs |-> FALSE]
    /\ hadLines = [j \in LogJobs |-> FALSE]
    /\ objects = {}
    /\ uploads = [j \in LogJobs |-> 0]
    /\ attempts = [j \in LogJobs |-> 0]
    /\ alive = [j \in LogJobs |-> 0]
    /\ skipped = [j \in LogJobs |-> FALSE]

\* One stream_logs thread alone.
TailSpecInit == SchedQuiet /\ LogChecks /\ FanQuiet /\ WatchQuiet /\ TailInit

TailSpec == TailSpecInit /\ [][TailNext]_vars

(***************************************************************************)
(* Properties of the admission scheduler.                                  *)
(***************************************************************************)
IsTerminal(j) == j.phase \in {"Succeeded", "Failed"}

\* Workloads waiting for a slot: suspended jobs, created containers.
Suspended ==
    IF driver = "k8s"
    THEN {n \in Existing : jobs[n].suspend}
    ELSE {n \in Existing : jobs[n].phase = "created"}

\* Workloads that exist after the step and did not before it.
Created == {n \in Names : ~jobs[n].exists /\ jobs'[n].exists}

\* Workloads the step un-suspends (Kubernetes) or starts (Docker).
Released == {n \in Suspended : jobs'[n].exists /\ n \notin Suspended'}

\* C1: with the Kubernetes driver, in every reachable state at most max_proc
\* workloads are neither suspended nor terminal, whatever the interleaving
\* of schedule calls and un-suspend passes.
CapUnderInterleaving ==
    driver = "k8s" => Cardinality(ActiveWorkloads) <= max_proc

\* C2: a schedule call creates its workload suspended exactly when the
\* running count it read is >= max_proc. Kubernetes: the decision taken at
\* the count is 'suspend' exactly then, and the job is created with that
\* decision (un-suspended otherwise). Docker: the container is created in
\* 'created'; the call then returns without a start when the count is
\* >= max_proc, and runs a start pass otherwise.
CreationPolicyStep ==
    /\ \A t \in Clients :
         /\ (pc[t] = "idle" /\ pc'[t] = "k_create") =>
               (loc'[t].start_suspended <=>
                  Cardinality({n \in Existing : IsActiveJob(jobs[n])}) >= max_proc)
         /\ (pc[t] = "k_create" /\ pc'[t] = "idle") =>
               \A n \in Created :
                  /\ n = loc[t].name
                  /\ jobs'[n].suspend = loc[t].start_suspended
                  /\ jobs'[n].phase = "none"
         /\ (pc[t] = "d_count" /\ pc'[t] # "d_count") =>
               /\ jobs' = jobs
               /\ pc'[t] = (IF Cardinality({n \in Existing : jobs[n].phase = "running"})
                                >= max_proc
                            THEN "idle" ELSE "p_count")
    /\ driver = "docker" => \A n \in Created : jobs'[n].phase = "created"

CreationPolicy == [][CreationPolicyStep]_vars

\* A Kubernetes job that was created suspended, beside an active one that
\* was created un-suspended.
CreationPolicyWitness ==
    /\ driver = "k8s"
    /\ max_proc = 1
    /\ \E n, m \in Existing :
         /\ jobs[n].suspend /\ jobs[n].created > jobs[m].created
         /\ IsActiveJob(jobs[m])
    /\ \A t \in Threads : pc[t] = "idle"

\* C3: with max_proc = 0 every workload that exists (scheduled and not
\* cancelled) is listed pending, a Kubernetes job is suspended, and no pass
\* is at an un-suspend or start call.
MaxProcZero ==
    max_proc = 0 =>
        /\ \A n \in Existing :
              /\ ScrapydState(n) = "pending"
              /\ driver = "k8s" => jobs[n].suspend
        /\ \A t \in Threads : pc[t] # "p_start"

\* With max_proc = 0: jobs have been scheduled, one was cancelled, and a
\* pass is at its loop test.
MaxProcZeroWitness ==
    /\ max_proc = 0
    /\ Cardinality(Existing) = 2
    /\ clock = 3
    /\ \E t \in Threads : pc[t] = "p_next"

\* C4: with max_proc = 1 and J1 created before J2, once J1 is finished J2 is
\* eventually un-suspended and its pod runs.
MaxProcOneHandover ==
    \A j1, j2 \in {J1, J2} :
        (/\ max_proc = 1
         /\ jobs[j1].exists /\ IsTerminal(jobs[j1])
         /\ jobs[j2].exists /\ jobs[j1].created < jobs[j2].created)
        ~> (~jobs[j2].suspend /\ jobs[j2].phase # "none")

\* C5: a job that a pass un-suspends or starts has the earliest creation
\* timestamp among the jobs suspended at that moment.
FifoUnsuspensionStep ==
    \A n \in Released : \A m \in Suspended : jobs[n].created <= jobs[m].created

FifoUnsuspension == [][FifoUnsuspensionStep]_vars

\* C22: with max_proc left out of the configuration, no Kubernetes job is
\* suspended, and no Docker container is left in 'created' by a schedule
\* call that has returned.
NoCapWhenUnset ==
    cfg_max_proc = Unset =>
        \A n \in Existing :
            /\ driver = "k8s" => ~jobs[n].suspend
            /\ (driver = "docker" /\ jobs[n].phase = "created") =>
                  \E t \in Clients : pc[t] = "d_count" /\ loc[t].name = n

Max(a, b) == IF a >= b THEN a ELSE b

\* C25: a pass of check_and_unsuspend_jobs that read the running count r,
\* during which nothing is scheduled or cancelled, and that ends at its
\* loop test (no unsuspend failed), has un-suspended min(max(max_proc - r,
\* 0), s) jobs, s being the number of jobs suspended when it started (those
\* it un-suspended and those still suspended); and if r <= max_proc, at
\* most max_proc workloads are active when it ends.
PassSizeStep ==
    (/\ driver = "k8s"
     /\ pc[Worker] = "p_next"
     /\ pc'[Worker] = "idle") =>
        LET l == loc[Worker]
            s == l.released + Cardinality(Waiting)
        IN /\ l.released = Min(Max(max_proc - l.r, 0), s)
           /\ l.r <= max_proc => Cardinality(ActiveWorkloads') <= max_proc

PassSize == [][PassSizeStep]_vars

\* The threads that are in a pass.
InPass == {t \in Threads : pc[t] \in {"p_count", "p_next", "p_start"}}

\* C26: at no time are two threads in an un-suspend pass
\* (check_and_unsuspend_jobs, start_pending_containers).
OnePassAtATime == Cardinality(InPass) <= 1

\* C27: with the Docker driver the number of containers in status running
\* never exceeds max_proc.
DockerCap ==
    driver = "docker" =>
        Cardinality({n \in Existing : jobs[n].phase = "running"}) <= max_proc

\* The event the watcher thread is about to hand to handle_pod_event.
HandledEvent == Head(stream)

HandlesEvent ==
    /\ pc[Worker] = "idle" /\ stream # <<>> /\ stream' = Tail(stream)

\* C28: handle_pod_event runs check_and_unsuspend_jobs if and only if the
\* event's pod has the job-id label, its phase is Succeeded or Failed and
\* the event type is MODIFIED or DELETED; for every other event it calls
\* nothing and changes nothing.
EventPolicyStep ==
    HandlesEvent =>
        IF /\ HandledEvent.labelled
           /\ HandledEvent.phase \in {"Succeeded", "Failed"}
           /\ HandledEvent.type \in {"MODIFIED", "DELETED"}
        THEN pc'[Worker] = "p_count"
        ELSE /\ pc' = pc
             /\ loc' = loc
             /\ jobs' = jobs

EventPolicy == [][EventPolicyStep]_vars

\* A pass has been started by an event and the next event of the stream is
\* one the policy ignores: a finished pod of a job that is listed (ADDED).
EventPolicyWitness ==
    /\ pc[Worker] = "p_count"
    /\ stream # <<>>
    /\ HandledEvent = Event("ADDED", "Succeeded")

\* C29: when an unsuspend call of a pass fails, the pass stops at once: the
\* watcher thread is back from handle_pod_event, ready for the next event,
\* no job was changed, and the jobs that were suspended are still suspended.
StopOnFailureStep ==
    (/\ driver = "k8s" /\ pc[Worker] = "p_start" /\ loc'[Worker].failed) =>
        /\ pc'[Worker] = "idle"
        /\ jobs' = jobs
        /\ Waiting' = Waiting

IdRank(job_id) == CASE job_id = "a" -> 1 [] job_id = "b" -> 2 [] OTHER -> 3

\* n is before m, or equal to it, in the order of selection: creation time
\* ascending, then job_id.
SelectedBefore(n, m) ==
    \/ jobs[n].created < jobs[m].created
    \/ /\ jobs[n].created = jobs[m].created
       /\ IdRank(JobIdOf(n)) <= IdRank(JobIdOf(m))

\* C30: get_next_suspended_job_id returns the job_id of the suspended job
\* that is least by creation time and then by job_id, whatever the order
\* in which the backend lists the jobs.
SelectionOrderStep ==
    (/\ driver = "k8s" /\ pc[Worker] = "p_next" /\ pc'[Worker] = "p_start") =>
        \E n \in Waiting :
            /\ \A m \in Waiting : SelectedBefore(n, m)
            /\ loc'[Worker].pick = <<None, JobIdOf(n)>>

SelectionOrder == [][SelectionOrderStep]_vars

\* The labelled jobs that are not suspended, not completed and not failed.
NotSuspendedNotEnded ==
    {n \in Names : /\ jobs[n].exists
                   /\ ~jobs[n].suspend
                   /\ jobs[n].phase \notin {"Succeeded", "Failed"}}

\* C31: the running count a pass reads is the number of labelled jobs that
\* are not suspended, not completed and not failed: no suspended job is in
\* it, and an un-suspended job whose pod has not started is.
RunningCountStep ==
    (/\ driver = "k8s" /\ pc[Worker] = "p_count" /\ pc'[Worker] = "p_next") =>
        /\ loc'[Worker].r = Cardinality(NotSuspendedNotEnded)
        /\ \A n \in Names :
             /\ jobs[n].exists /\ jobs[n].suspend => n \notin NotSuspendedNotEnded
             /\ jobs[n].exists /\ ~jobs[n].suspend /\ jobs[n].phase = "none"
                    => n \in NotSuspendedNotEnded

RunningCount == [][RunningCountStep]_vars

\* A pass has read a count of one while a job is suspended, a job has
\* ended, and the only job counted is one whose pod has not started.
RunningCountWitness ==
    /\ driver = "k8s"
    /\ pc[Worker] = "p_next"
    /\ loc[Worker].r = 1
    /\ loc[Worker].released = 0
    /\ \E n \in Names : jobs[n].exists /\ jobs[n].suspend
    /\ \E n \in Names : jobs[n].phase \in {"Succeeded", "Failed"}
    /\ \A n \in NotSuspendedNotEnded : jobs[n].phase = "none"
    /\ Cardinality(NotSuspendedNotEnded) = 1

\* C37: whenever a job is suspended and fewer than max_proc workloads are
\* active, a pass of the watcher thread eventually un-suspends a suspended
\* job (or no job is left suspended), whatever freed the capacity.
NoStarvation ==
    (/\ driver = "k8s"
     /\ Waiting # {}
     /\ Cardinality(ActiveWorkloads) < max_proc)
    ~> (loc[Worker].released > 0 \/ Waiting = {})

\* C39: a list call that failed is not taken for a count of zero: with
\* max_proc workloads active, a schedule call whose count failed creates its
\* job suspended, and a pass whose count failed un-suspends no job.
FailedCountStep ==
    Cardinality(ActiveWorkloads) >= max_proc =>
        /\ \A t \in Clients :
             (/\ pc[t] = "k_create" /\ loc[t].count_failed
              /\ ~jobs[loc[t].name].exists /\ jobs'[loc[t].name].exists)
             => jobs'[loc[t].name].suspend
        /\ (pc[Worker] = "p_start" /\ loc[Worker].count_failed)
             => \A n \in Names : jobs[n].suspend => jobs'[n].suspend \/ ~jobs'[n].exists

FailedCount == [][FailedCountStep]_vars

(***************************************************************************)
(* Properties of cancel.                                                   *)
(***************************************************************************)
InCancel(t) == pc[t] \in {"k_cancel", "d_cancel"}

\* The value cancel returns, from its locals l.
Prevstate(l) ==
    IF l.status = None THEN None
    ELSE IF driver = "k8s" THEN l.status
    ELSE DockerToScrapydStatus(l.status)

\* The state listjobs shows for the workload of a project and job id; None
\* for no such workload.
StateOf(n) == IF n \in Names /\ jobs[n].exists THEN ScrapydState(n) ELSE None

\* C16: a cancel of J1 after its schedule returns pending, running or
\* finished, and J1 is listed as finished in the end.
RoundTrip ==
    /\ [](InCancel(1) => Prevstate(loc[1]) \in {"pending", "running", "finished"})
    /\ (InCancel(1) ~> StateOf(J1) = "finished")

\* C17: a cancel of a finished job returns finished and changes no
\* workload, each time it is called.
CancelFinishedStep ==
    \A t \in Cancellers :
        /\ (/\ pc[t] = "idle"
            /\ pc'[t] \in {"k_cancel", "d_cancel"}
            /\ StateOf(loc'[t].name) = "finished") =>
               Prevstate(loc'[t]) = "finished"
        /\ (/\ InCancel(t)
            /\ pc'[t] \notin {"k_cancel", "d_cancel"}
            /\ Prevstate(loc[t]) = "finished") =>
               jobs' = jobs

CancelFinished == [][CancelFinishedStep]_vars

\* C18: cancel returns the state the workload of that project and job id
\* has at the call, None exactly when there is no such workload, and then
\* acts by what it returns: nothing changes for None and finished, the
\* workload stays for running, and is deleted for pending.
CancelContractStep ==
    \A t \in Cancellers :
        /\ (pc[t] = "idle" /\ pc'[t] \in {"k_cancel", "d_cancel"}) =>
               Prevstate(loc'[t]) = StateOf(loc'[t].name)
        /\ (InCancel(t) /\ pc'[t] \notin {"k_cancel", "d_cancel"}) =>
               LET n == loc[t].name
                   prevstate == Prevstate(loc[t])
               IN CASE prevstate = "pending" -> jobs' = [jobs EXCEPT ![n] = NoJob]
                    [] prevstate = "running" ->
                         /\ jobs'[n].exists
                         /\ \A m \in Names \ {n} : jobs'[m] = jobs[m]
                    [] OTHER -> jobs' = jobs

CancelContract == [][CancelContractStep]_vars

\* C19: no two workloads carry the same job id.
UniqueJobIds ==
    \A n, m \in Existing : JobIdOf(n) = JobIdOf(m) => n = m

(***************************************************************************)
(* Properties of the HTTP facade.                                          *)
(***************************************************************************)
\* C23: a /listjobs.json request whose backend listing failed is answered
\* with an error, and a cancel whose backend listing failed does not go
\* on as for a job that was not found (None).
ErrorsSurface ==
    /\ resp.failed => resp.status = "error"
    /\ \A t \in Cancellers :
          (InCancel(t) /\ loc[t].failed) => Prevstate(loc[t]) # None

\* C24: in every answer of /listjobs.json the lists pending, running and
\* finished are pairwise disjoint and hold, together, the jobs that the
\* driver's listjobs returned.
ListPartition ==
    resp.status = "ok" =>
        /\ resp.pending \cup resp.running \cup resp.finished = resp.jobs
        /\ resp.pending \cap resp.running = {}
        /\ resp.pending \cap resp.finished = {}
        /\ resp.running \cap resp.finished = {}

(***************************************************************************)
(* Properties of the log pipeline.                                         *)
(***************************************************************************)
\* The step in which handle_events calls upload_file.
UploadStep == hpc = "upload" /\ hpc' # "upload"

\* The names the log of job j is stored under start with this.
JobPrefix(j) == <<"logs", "/", LogProject, "/", LogSpider, "/", j>>

UploadHappensStep ==
    (/\ UploadStep
     /\ files[hjob] = "data"
     /\ ObjectsWithPrefix(JobPrefix(hjob)) = {})
    => /\ \E o \in UploadNames(LogProject, LogSpider, hjob) : objects' = objects \cup {o}
       /\ uploads' = [uploads EXCEPT ![hjob] = @ + 1]
       /\ files'[hjob] = "absent"

UploadHappens == [][UploadHappensStep]_vars

\* C35: the probe before an upload finds every object whose name starts
\* with logs/{project}/{spider}/{job_id}: when the log of the job is in
\* storage, as .log or as .log.{ext}, the handler does not go on to upload.
ProbeFindsUploadStep ==
    (hpc = "probe" /\ hpc' = "upload") =>
        ObjectsWithPrefix(JobPrefix(hjob)) = {}

ProbeFindsUpload == [][ProbeFindsUploadStep]_vars

\* C38: when handle_events calls upload_file for a job, after a Succeeded
\* or Failed event, no stream_logs thread of the job is alive: none writes
\* to the local file from then on.
UploadAfterTailStep ==
    UploadStep => (alive[hjob] = 0 /\ tails[hjob] = "none")

UploadAfterTail == [][UploadAfterTailStep]_vars

\* C9: when the upload of a job's log fails, the local log file is left as
\* it is.
FailedUploadKeepsFileStep ==
    (UploadStep /\ uploads' = uploads) => files' = files

FanOut ==
    npc = "notify" =>
        \A c \in Callbacks :
            /\ invoked[c] <= 1
            /\ idx > Len(subscribers) => (invoked[c] = 1 <=> c \in Range(subscribers))

\* A dispatch to two or more subscribers is complete, and a callback had
\* been subscribed a second time.
FanOutWitness ==
    /\ npc = "notify"
    /\ idx > Len(subscribers)
    /\ Len(subscribers) >= 2
    /\ resubscribed

\* C11: a callback that raises does not end the dispatch: the loop goes on
\* to the next subscriber with the lock held; and every dispatch that ends,
\* ends with each registered subscriber invoked once and the watcher back
\* in the 'for' of the same stream, where the next event is dispatched in
\* the same way.
SubscriberIsolationStep ==
    /\ (raised' # raised /\ raised' # {}) =>
          /\ npc' = "notify"
          /\ idx' = idx + 1
          /\ lock' = lock
    /\ (npc = "notify" /\ npc' \notin {"notify", "nested"}) =>
          /\ npc' = "idle"
          /\ \A c \in Range(subscribers) : invoked[c] = 1

SubscriberIsolation == [][SubscriberIsolationStep]_vars

\* The first of two or more subscribers raised, all have been invoked, and
\* a callback had raised with the previous event of the stream.
SubscriberIsolationWitness ==
    /\ npc = "notify"
    /\ idx > Len(subscribers)
    /\ Len(subscribers) >= 2
    /\ subscribers[1] \in raised
    /\ \A c \in Range(subscribers) : invoked[c] = 1
    /\ prev_raised

\* C12: each callback is called with the events in the order they were
\* received (increasing numbers), and only with events up to the one being
\* dispatched: no later event is handed out while one is dispatched.
InOrder ==
    \A c \in Callbacks :
        /\ \A i, k \in 1..Len(delivered[c]) :
             i < k => delivered[c][i] < delivered[c][k]
        /\ \A i \in 1..Len(delivered[c]) : delivered[c][i] <= event

\* Two events were pending together and a callback got both.
InOrderWitness ==
    /\ \E c \in Callbacks : Len(delivered[c]) >= 2
    /\ npc = "notify"
    /\ wstream = <<>>
    /\ sent = MaxEvents

\* The list of subscribers is the same after every step taken while an
\* event is being dispatched.
ListKeptInDispatchStep ==
    npc \in {"notify", "nested"} => subscribers' = subscribers

ListKeptInDispatch == [][ListKeptInDispatchStep]_vars

\* C21: no call of subscribe or unsubscribe waits for a lock that its own
\* thread holds (such a call never completes), and no step taken while an
\* event is being dispatched changes the list of subscribers.
SafeFromAnyContext ==
    /\ [](~(npc = "nested" /\ Worker \in lock))
    /\ ListKeptInDispatch

\* C20: once the stop event is set, no event starts to be dispatched and
\* no stream is opened.
StopHaltsStep ==
    stop_event =>
        /\ event' = event
        /\ ~(npc = "check" /\ npc' = "idle")

StopHalts == [][StopHaltsStep]_vars

\* C15: no job has two stream_logs threads alive at a time, whatever
\* Running events are delivered, duplicates and re-deliveries included.
OneTailWorker == \A j \in LogJobs : alive[j] <= 1

\* A Running event came for a job whose thread was alive; the thread is
\* the only one.
OneTailWorkerWitness ==
    \E j \in LogJobs :
        /\ skipped[j]
        /\ alive[j] = 1
        /\ tails[j] # "none"

(***************************************************************************)
(* Properties of stream_logs.                                              *)
(***************************************************************************)
IsPrefix(p, q) == Len(p) <= Len(q) /\ SubSeq(q, 1, Len(p)) = p

\* q without its first n lines
Drop(q, n) == SubSeq(q, n + 1, Len(q))

\* The lines the log file ended with when the thread started: the last
\* num_lines_to_check of them, or all of a shorter file.
TailOfOld ==
    SubSeq(old_content,
           Len(old_content) - Min(num_lines_to_check, Len(old_content)) + 1,
           Len(old_content))

ExactlyAppend ==
    (/\ tpc = "done"
     /\ num_lines_to_check >= 1
     /\ Len(old_content) >= 1
     /\ IsPrefix(old_content, replayed)) =>
        main_file = replayed

\* The lines the thread has received from the stream.
Received == SubSeq(replayed, 1, Len(replayed) - Len(pod_log))

\* C36: when the thread has ended, after the end of the stream or after an
\* error of it, every line it received is in the log file and the
\* temporary file is gone.
TailCleanup ==
    tpc \in {"done", "failed"} =>
        /\ Range(Received) \subseteq Range(main_file)
        /\ temp_logs = None


(***************************************************************************)
(* Properties of the connection loop.                                      *)
(***************************************************************************)
OpensStream == wloop.pc = "loop" /\ wloop'.pc = "streaming"

\* C32: the watcher sleeps between a stream and the next: a stream that is
\* not the first is opened only after a sleep since the stream before it
\* was opened, however that stream ended.
BackoffBetweenStreamsStep ==
    (OpensStream /\ whist.opened) => whist.slept

BackoffBetweenStreams == [][BackoffBetweenStreamsStep]_vars

\* C33: a stream that fails is followed by a sleep, and the sleep after n
\* failures in a row, no event received in between, lasts
\* min(backoff_time * backoff_coefficient^n, 900) seconds; n is 0 again
\* once an event has been received.
BackoffScheduleStep ==
    (whist'.failures = whist.failures + 1) =>
        /\ wloop'.pc = "sleep"
        /\ whist'.last_sleep =
              Min(cfg_backoff_time * backoff_coefficient ^ whist'.n, MaxBackoff)

BackoffSchedule == [][BackoffScheduleStep]_vars

\* C34: a stream is opened with the resource version of the last event
\* dispatched, and with none when no event was dispatched or when the
\* version was dropped for a 410 and no event came since.
ResourceVersionStep ==
    OpensStream =>
        wloop'.kwargs = IF whist.gone THEN NoneRv ELSE whist.dispatched

ResourceVersion == [][ResourceVersionStep]_vars

\* C40: no event is received whose dispatch fails, and sleeps, because the
\* lock of the subscribers has not been created yet.
InitialisationOrder == ~whist.lost

====
